---- MODULE Spec2Model ----
(***************************************************************************)
(* State-machine model of ghost.py: the Session object that drives a       *)
(* QtWebKit page synchronously.  The caller's thread is the only thread;   *)
(* engine signals are delivered while the event queue is pumped            *)
(* (Session.sleep) and page script runs synchronously inside the engine    *)
(* calls of an operation.                                                  *)
(***************************************************************************)
EXTENDS Integers, Sequences, FiniteSets, TLC

VARIABLES
    pc,                 \* position of the caller's thread
    cur,                \* the operation the caller is inside
    attrs,              \* attributes the Session object still has
    page_deleted,       \* page.deleteLater() has been called
    loaded,             \* Session.loaded
    http_resources,     \* Session.http_resources
    nres,               \* HttpResource objects constructed so far
    replies,            \* the engine's QNetworkReply objects
    nav,                \* the engine's navigation state
    doc,                \* the document the current frame shows
    confirm_expected,   \* Session._confirm_expected
    prompt_expected,    \* Session._prompt_expected
    scopes,             \* with-blocks (confirm/prompt) the caller is inside
    alert,              \* Session._alert
    popup_messages,     \* Session.popup_messages
    upload_file,        \* Session._upload_file
    auth,               \* Session._auth
    auth_attempt,       \* Session._auth_attempt
    wait_timeout,       \* Session.wait_timeout
    elapsed,            \* time.time() - started_at of the running wait_for
    dialog,             \* outcome of the last dialog callback
    ret,                \* outcome of the caller's last operation
    delivered,          \* serials of the resources returned to the caller
    dom,                \* the fields of the form document, as the engine holds them
    events,             \* the events the caller's last operation fired on elements
    default_popup_response, \* the default_popup_response last given to open
    cookie_jar,         \* the cookies of Session.cookie_jar (QNetworkCookieJar)
    py_jar,             \* the caller's CookieJar object
    cookie_file,        \* the caller's cookie file on disk
    frame_size,         \* main_frame.contentsSize()
    viewport_size,      \* page.viewportSize()
    nlog,               \* log records the reply handlers have written
    wait_callback       \* Session.wait_callback

vars == <<pc, cur, attrs, page_deleted, loaded, http_resources, nres, replies,
          nav, doc, confirm_expected, prompt_expected, scopes, alert,
          popup_messages, upload_file, auth, auth_attempt, wait_timeout,
          elapsed, dialog, ret, delivered,
                   dom, events, default_popup_response,
                   cookie_jar, py_jar, cookie_file, frame_size, viewport_size,
                   nlog, wait_callback>>

----------------------------------------------------------------------------
(* Bounds of the model *)

MaxReplies == 2     \* QNetworkReply objects the engine creates
MaxRes == 2         \* HttpResource objects constructed
MaxPopups == 2      \* length of the popup transcript
MaxDepth == 2       \* nesting depth of confirm/prompt with-blocks
MaxTimeout == 1     \* largest timeout passed by the caller, in poll intervals
MaxPoll == 2        \* longest time one sleep() takes, in poll intervals
MaxCookies == 2     \* cookies in the engine's jar
MaxName == 4        \* length of the cookie names that are exported

----------------------------------------------------------------------------
(* Values *)

\* Python None, for the string-valued attributes
None == "None"

\* timeout=None
NoTimeout == -1

\* A dialog expectation: None, a fixed value, or a zero-argument callable.
NoExpect == [kind |-> "none", v |-> ""]
Val(x) == [kind |-> "value", v |-> x]
Fn(x) == [kind |-> "callable", v |-> x]

ConfirmArgs == {Val("True"), Fn("False")}
PromptArgs == {Val(""), Fn("txt")}
PopupResponses == {NoExpect, Val("True")}

Msgs == {"m1", "m2"}
Timeouts == 0..MaxTimeout
ReplyIds == 1..MaxReplies

\* The documents the frame can show, by the selectors that match in them.
Docs == {"blank", "form"}
Selectors == {"#form", "#text", "#file", "#div", "#none", "#color", "#area",
              "#date", "#submit", ".box", "#a", ".radio"}
Matches(d) == IF d = "form" THEN Selectors \ {"#none"} ELSE {}
Texts == {"hello"}
Content(d) == IF d = "form" THEN {"hello"} ELSE {}

\* tag and type attribute of the element a selector matches
TagName(sel) ==
    CASE sel = "#form" -> "form"
      [] sel = "#div" -> "div"
      [] sel = "#color" -> "select"
      [] sel = "#area" -> "textarea"
      [] OTHER -> "input"
TypeAttr(sel) ==
    CASE sel = "#text" -> "text"
      [] sel = "#file" -> "file"
      [] sel = "#date" -> "datetime"
      [] sel = "#submit" -> "submit"
      [] sel \in {".box", "#a"} -> "checkbox"
      [] sel = ".radio" -> "radio"
      [] OTHER -> ""

\* findAllElement(selector) in the form document, in document order:
\* .box is a group of three checkboxes, #a the first of them alone, .radio
\* a group of two radio buttons
Elems(sel) ==
    CASE sel = ".box" -> <<"a", "b", "c">>
      [] sel = "#a" -> <<"a">>
      [] sel = ".radio" -> <<"r1", "r2">>
      [] sel = "#text" -> <<"text">>
      [] sel = "#file" -> <<"file">>
      [] sel = "#date" -> <<"date">>
      [] sel = "#submit" -> <<"submit">>
      [] sel = "#color" -> <<"color">>
      [] sel = "#area" -> <<"area">>
      [] sel = "#div" -> <<"div">>
      [] sel = "#form" -> <<"form">>
      [] OTHER -> <<>>

\* the form controls of the form document
Fields == {"text", "file", "date", "submit", "a", "b", "c", "r1", "r2",
           "color", "area"}

\* el.attribute('value') of a checkbox, a radio button or an option
ValueAttr(e) ==
    CASE e = "r1" -> "x"
      [] e = "r2" -> "y"
      [] OTHER -> e

\* el.findAll('option') of the select, in document order
Options == <<"red", "green">>

\* Python True and False
PyTrue == "True"
PyFalse == "False"

\* What the engine holds for each control: the value attribute of a
\* text-like input ("" when it has none), the checked attribute of a
\* checkbox or radio button ("checked", or "" when it has none), the value
\* of the selected option of the select, the plain text of the textarea.
\* The document as the server sent it:
FreshDom == [e \in Fields |-> IF e = "color" THEN "red" ELSE ""]

\* QSize(width, height)
QSize(w, h) == [w |-> w, h |-> h]

\* the wait_callback argument of Session: None or a callable
WaitCallbacks == {None, "callback"}

\* a cookie file that does not exist
NoFile == [exists |-> FALSE, cookies |-> <<>>]
File(cookies) == [exists |-> TRUE, cookies |-> cookies]

\* A count of seconds since the epoch, as wide as Qt's uint, held in two
\* 16-bit halves: hi * 65536 + lo
Time(hi, lo) == [hi |-> hi, lo |-> lo]
Gt(a, b) == a.hi > b.hi \/ (a.hi = b.hi /\ a.lo > b.lo)

\* no time: the invalid QDateTime of a cookie without expiration date, and
\* expires=None of a portable cookie
NoTime == [hi |-> 0 - 1, lo |-> 0 - 1]

\* 2147483647, and 4294967295 = uint(-1)
IntMax == Time(32767, 65535)
UintMax == Time(65535, 65535)

\* a QNetworkCookie: name and value are byte arrays, path and domain
\* strings, expires the expirationDate
QNetworkCookie(name, value, secure, path, domain, expires) ==
    [name |-> name, value |-> value, secure |-> secure, path |-> path,
     domain |-> domain, expires |-> expires]

\* The cookies the network hands to the engine's jar: one expiring at
\* 4000000000, a session cookie, and one that expires at 1966080000
QtCookies ==
    {QNetworkCookie("sid", "1", TRUE, "/", ".x.org", Time(61035, 10240)),
     QNetworkCookie("sid", "2", FALSE, "/", "y.org", NoTime),
     QNetworkCookie("lang", "en", FALSE, "/a", ".x.org", Time(30000, 0))}

\* an http.cookiejar.Cookie, with the fields the bridge reads or computes
Cookie(name, value, domain, path, path_specified, secure, expires) ==
    [name |-> name, value |-> value, domain |-> domain, path |-> path,
     path_specified |-> path_specified, secure |-> secure, expires |-> expires]

\* The CookieJar objects the caller starts with: an empty one, and one with
\* a cookie of its own making (no path, expires=0)
PyJars == {<<>>, <<Cookie("tok", "v", "", None, FALSE, TRUE, Time(0, 0))>>}

\* time.time() when a cookie file is written or read: 1769472000
Now == Time(27000, 0)

\* what the caller passes as cookie_storage: a path, a CookieJar, or
\* something else (a dict)
StorageKinds == {"str", "CookieJar", "dict"}

SessionAttrs == {"webview", "cookie_jar", "manager", "main_frame"}

\* Session.__init__ never assigns _auth: the attribute is missing until open.
Unset == "unset"

NoCur == [op |-> "", wait |-> "", sel |-> "", fields |-> <<>>, el |-> FALSE,
          timeout |-> 0, err |-> "", drains |-> FALSE, popup |-> NoExpect,
          value |-> "", blur |-> TRUE, callbacks |-> 0]
NoDialog == [kind |-> "", status |-> "", answer |-> "", calls |-> 0]
\* What a call gave its caller: the error raised (err, msg), or the first
\* element of the returned tuple (val, or page for wait_for_page_loaded: a
\* list holding the page resource, empty for None) and the resources (res).
NoRet == [op |-> "", status |-> "", err |-> "", msg |-> <<>>, val |-> "",
          page |-> <<>>, res |-> <<>>]

Result(op, val, page, res) ==
    [op |-> op, status |-> "ok", err |-> "", msg |-> <<>>, val |-> val,
     page |-> page, res |-> res]
Returned(op, res) == Result(op, "", <<>>, res)
RaisedWith(op, err, msg) ==
    [op |-> op, status |-> "error", err |-> err, msg |-> msg, val |-> "",
     page |-> <<>>, res |-> <<>>]
Raised(op, err) == RaisedWith(op, err, <<>>)

Serials(s) == {s[i].n : i \in 1..Len(s)}

Min(a, b) == IF a < b THEN a ELSE b

\* the greatest index of a non-empty set of indices
Last(S) == CHOOSE i \in S : \A j \in S : j <= i

----------------------------------------------------------------------------
Init ==
    /\ pc = "idle"
    /\ cur = NoCur
    /\ attrs = SessionAttrs
    /\ page_deleted = FALSE
    /\ loaded = TRUE
    /\ http_resources = <<>>
    /\ nres = 0
    /\ replies = [r \in ReplyIds |-> [st |-> "new", http |-> FALSE, unsup |-> FALSE]]
    /\ nav = "idle"
    /\ doc = "blank"
    /\ confirm_expected = NoExpect
    /\ prompt_expected = NoExpect
    /\ scopes = <<>>
    /\ alert = None
    /\ popup_messages = <<>>
    /\ upload_file = None
    /\ auth = Unset
    /\ auth_attempt = 0
    /\ wait_timeout \in Timeouts
    /\ elapsed = 0
    /\ dialog = NoDialog
    /\ ret = NoRet
    /\ delivered = {}
    /\ dom = FreshDom
    /\ events = <<>>
    /\ default_popup_response = NoExpect
    /\ cookie_jar = <<>>
    /\ py_jar \in PyJars
    /\ cookie_file = NoFile
    /\ frame_size = QSize(0, 0)
    /\ viewport_size = QSize(0, 0)
    /\ nlog = 0
    /\ wait_callback \in WaitCallbacks

\* a session constructed with the default wait_timeout=0 and
\* wait_callback=None, by a caller that has no cookies of its own
InitDefault == Init /\ wait_timeout = 0 /\ wait_callback = None /\ py_jar = <<>>

\* a session constructed with a wait_timeout and the default wait_callback=None
InitTimeout == Init /\ wait_callback = None /\ py_jar = <<>>

----------------------------------------------------------------------------
(* Where the caller's thread is *)

\* Session.sleep is running: the engine's queued signals are delivered.
Pumping == pc \in {"wait_pump", "sleep_pump", "exit_pump"}

\* Page script can run: inside an engine call of an operation, or in a pump.
InEngine == pc = "act" \/ Pumping

\* The session has not been torn down.
Alive == attrs = SessionAttrs

----------------------------------------------------------------------------
(* Resource Collector *)

\* A URL as a string: the part before '#', and the fragment after it
\* ("" when the URL has no '#')
Url(base, frag) == [base |-> base, frag |-> frag]

\* url.split("#")[0]
WithoutHash(u) == [u EXCEPT !.frag = ""]

\* reply.url(): the URL each exchange was requested for
ReplyUrl(r) ==
    CASE r = 1 -> Url("http://h/form", "")
      [] r = 2 -> Url("http://h/blank", "")
      [] OTHER -> Url("http://h/img", "")

\* self.main_frame.url(): the URL of the document the frame shows
FrameUrl(d) ==
    IF d = "form" THEN Url("http://h/form", "top") ELSE Url("http://h/blank", "")

\* HttpResource.__init__: the snapshot of reply r, the n-th one constructed
HttpResource(r, n) == [n |-> n, reply |-> r, url |-> ReplyUrl(r)]

\* NetworkAccessManager.createRequest: the engine starts a network exchange;
\* whether it will carry an HTTP status is the network's choice.
createRequest(r) ==
    /\ InEngine \/ pc = "open_load"
    /\ replies[r].st = "new"
    /\ \A q \in ReplyIds : q < r => replies[q].st # "new"
    /\ \E h \in BOOLEAN :
          replies' = [replies EXCEPT ![r] = [st |-> "open", http |-> h, unsup |-> FALSE]]
    /\ UNCHANGED <<pc, cur, attrs, page_deleted, loaded, http_resources, nres,
                   nav, doc, confirm_expected, prompt_expected, scopes, alert,
                   popup_messages, upload_file, auth, auth_attempt,
                   wait_timeout, elapsed, dialog, ret, delivered,
                   dom, events, default_popup_response,
                   cookie_jar, py_jar, cookie_file, frame_size, viewport_size,
                   nlog, wait_callback>>

\* insert(0, ...) in place of append
AppendResource_front(r) ==
    IF replies[r].http
    THEN /\ nres < MaxRes
         /\ nres' = nres + 1
         /\ http_resources' = <<HttpResource(r, nres + 1)>> \o http_resources
    ELSE UNCHANGED <<nres, http_resources>>

\* self.http_resources.append(HttpResource(...)) when the reply has a status
AppendResource(r) ==
    IF replies[r].http
    THEN /\ nres < MaxRes
         /\ nres' = nres + 1
         /\ http_resources' = Append(http_resources, HttpResource(r, nres + 1))
    ELSE UNCHANGED <<nres, http_resources>>

\* a reply after its finished signal: nothing is read from it any more
Finished == [st |-> "done", http |-> FALSE, unsup |-> FALSE]

\* Session._request_ended, connected to manager.finished.  For a reply with
\* an HTTP status it writes a debug record, and HttpResource.__init__ an
\* info record; for a reply without one it does nothing.
request_ended(r) ==
    /\ Pumping
    /\ replies[r].st = "open"
    /\ AppendResource(r)
    /\ nlog' = nlog + (IF replies[r].http THEN 2 ELSE 0)
    /\ replies' = [replies EXCEPT ![r] = Finished]
    /\ UNCHANGED <<pc, cur, attrs, page_deleted, loaded, nav, doc,
                   confirm_expected, prompt_expected, scopes, alert,
                   popup_messages, upload_file, auth, auth_attempt,
                   wait_timeout, elapsed, dialog, ret, delivered,
                   dom, events, default_popup_response,
                   cookie_jar, py_jar, cookie_file, frame_size, viewport_size,
                   wait_callback>>

\* Session._unsupported_content, connected to page.unsupportedContent:
\* writes an info record and connects the reply's readyRead to
\* _reply_download_content
unsupported_content(r) ==
    /\ Pumping
    /\ replies[r].st = "open"
    /\ ~replies[r].unsup
    /\ replies' = [replies EXCEPT ![r].unsup = TRUE]
    /\ nlog' = nlog + 1
    /\ UNCHANGED <<pc, cur, attrs, page_deleted, loaded, http_resources, nres,
                   nav, doc, confirm_expected, prompt_expected, scopes, alert,
                   popup_messages, upload_file, auth, auth_attempt,
                   wait_timeout, elapsed, dialog, ret, delivered,
                   dom, events, default_popup_response,
                   cookie_jar, py_jar, cookie_file, frame_size, viewport_size,
                   wait_callback>>

\* Session._reply_download_content, run at each readyRead of a reply that
\* was marked as unsupported content
reply_download_content(r) ==
    /\ Pumping
    /\ replies[r].st = "open"
    /\ replies[r].unsup
    /\ AppendResource(r)
    /\ nlog' = nlog + (IF replies[r].http THEN 1 ELSE 0)
    /\ UNCHANGED <<pc, cur, attrs, page_deleted, loaded, replies, nav, doc,
                   confirm_expected, prompt_expected, scopes, alert,
                   popup_messages, upload_file, auth, auth_attempt,
                   wait_timeout, elapsed, dialog, ret, delivered,
                   dom, events, default_popup_response,
                   cookie_jar, py_jar, cookie_file, frame_size, viewport_size,
                   wait_callback>>

\* _release_last_resources without self.http_resources = []
release_last_resources_keeps(buf) == buf

\* Session._release_last_resources: the buffer after the call (the call
\* returns the buffer before it)
release_last_resources(buf) == <<>>

----------------------------------------------------------------------------
(* Navigation signals and the document *)

\* The engine's navigation state: "idle"; "pending", a navigation that page
\* script asked for; "opening", a navigation that main_frame.load asked
\* for; "loading", from the load-started to the load-finished signal.

\* Page script starts a navigation (a link, a form submit, location = ...)
navigate ==
    /\ InEngine
    /\ nav = "idle"
    /\ nav' = "pending"
    /\ UNCHANGED <<pc, cur, attrs, page_deleted, loaded, http_resources, nres,
                   replies, doc, confirm_expected, prompt_expected, scopes,
                   alert, popup_messages, upload_file, auth, auth_attempt,
                   wait_timeout, elapsed, dialog, ret, delivered,
                   dom, events, default_popup_response,
                   cookie_jar, py_jar, cookie_file, frame_size, viewport_size,
                   nlog, wait_callback>>

\* Session._page_load_started, connected to page.loadStarted
page_load_started ==
    /\ InEngine \/ pc = "open_load"
    /\ nav \in {"pending", "opening"}
    /\ nav' = "loading"
    /\ loaded' = FALSE
    /\ UNCHANGED <<pc, cur, attrs, page_deleted, http_resources, nres, replies,
                   doc, confirm_expected, prompt_expected, scopes, alert,
                   popup_messages, upload_file, auth, auth_attempt,
                   wait_timeout, elapsed, dialog, ret, delivered,
                   dom, events, default_popup_response,
                   cookie_jar, py_jar, cookie_file, frame_size, viewport_size,
                   nlog, wait_callback>>

\* Session._page_loaded, connected to page.loadFinished; its own sleep() is
\* a pump nested in the pump that delivered the signal.  The frame shows
\* the document as the server sent it.
page_loaded ==
    /\ Pumping
    /\ nav = "loading"
    /\ nav' = "idle"
    /\ loaded' = TRUE
    /\ doc' \in Docs
    /\ dom' = FreshDom
    /\ UNCHANGED <<pc, cur, attrs, page_deleted, http_resources, nres, replies,
                   confirm_expected, prompt_expected, scopes, alert,
                   popup_messages, upload_file, auth, auth_attempt,
                   wait_timeout, elapsed, dialog, ret, delivered,
                   events, default_popup_response,
                   cookie_jar, py_jar, cookie_file, frame_size, viewport_size,
                   nlog, wait_callback>>

\* Page script rewrites the document, controls included
dom_change ==
    /\ InEngine
    /\ doc' \in Docs \ {doc}
    /\ dom' = FreshDom
    /\ UNCHANGED <<pc, cur, attrs, page_deleted, loaded, http_resources, nres,
                   replies, nav, confirm_expected, prompt_expected, scopes,
                   alert, popup_messages, upload_file, auth, auth_attempt,
                   wait_timeout, elapsed, dialog, ret, delivered,
                   events, default_popup_response,
                   cookie_jar, py_jar, cookie_file, frame_size, viewport_size,
                   nlog, wait_callback>>

----------------------------------------------------------------------------
(* Dialog Bridge *)

\* append_popup_message inserting at the head of the list
append_popup_message_front(m) == popup_messages' = <<m>> \o popup_messages

\* Session.append_popup_message
append_popup_message(m) == popup_messages' = Append(popup_messages, m)

\* value(): what a zero-argument callable returns when it is called.  The
\* callable named "count" reads the session at the moment of the call
\* (lambda: len(session.popup_messages)); any other callable returns the
\* constant it is named after.
Invoke(f) == IF f = "count" THEN ToString(Len(popup_messages')) ELSE f

\* _get_value returning the expectation as it was registered
get_value_uncalled(value) == value.v

\* GhostWebPage._get_value: a callable is called and its result returned, a
\* fixed value is returned as it is
get_value(value) == IF value.kind = "callable" THEN Invoke(value.v) ELSE value.v

\* how many times _get_value calls the expectation
Calls(value) == IF value.kind = "callable" THEN 1 ELSE 0

\* GhostWebPage.javaScriptAlert
javaScriptAlert(m) ==
    /\ InEngine
    /\ Len(popup_messages) < MaxPopups
    /\ alert' = m
    /\ append_popup_message(m)
    /\ dialog' = [kind |-> "alert", status |-> "answered", answer |-> "", calls |-> 0]
    /\ UNCHANGED <<pc, cur, attrs, page_deleted, loaded, http_resources, nres,
                   replies, nav, doc, confirm_expected, prompt_expected, scopes,
                   upload_file, auth, auth_attempt, wait_timeout, elapsed, ret,
                   delivered,
                   dom, events, default_popup_response,
                   cookie_jar, py_jar, cookie_file, frame_size, viewport_size,
                   nlog, wait_callback>>

\* GhostWebPage.javaScriptConfirm
javaScriptConfirm(m) ==
    /\ InEngine
    /\ IF confirm_expected = NoExpect
       THEN /\ dialog' = [kind |-> "confirm", status |-> "error", answer |-> "", calls |-> 0]
            /\ UNCHANGED popup_messages
       ELSE /\ Len(popup_messages) < MaxPopups
            /\ append_popup_message(m)
            /\ dialog' = [kind |-> "confirm", status |-> "answered",
                          answer |-> get_value(confirm_expected),
                          calls |-> Calls(confirm_expected)]
    /\ UNCHANGED <<pc, cur, attrs, page_deleted, loaded, http_resources, nres,
                   replies, nav, doc, confirm_expected, prompt_expected, scopes,
                   alert, upload_file, auth, auth_attempt, wait_timeout,
                   elapsed, ret, delivered,
                   dom, events, default_popup_response,
                   cookie_jar, py_jar, cookie_file, frame_size, viewport_size,
                   nlog, wait_callback>>

\* javaScriptPrompt testing and using the confirm expectation
javaScriptPrompt_confirm(m) ==
    /\ InEngine
    /\ IF confirm_expected = NoExpect
       THEN /\ dialog' = [kind |-> "prompt", status |-> "error", answer |-> "", calls |-> 0]
            /\ UNCHANGED popup_messages
       ELSE /\ Len(popup_messages) < MaxPopups
            /\ append_popup_message(m)
            /\ dialog' = [kind |-> "prompt", status |-> "answered",
                          answer |-> get_value(confirm_expected),
                          calls |-> Calls(confirm_expected)]
    /\ UNCHANGED <<pc, cur, attrs, page_deleted, loaded, http_resources, nres,
                   replies, nav, doc, confirm_expected, prompt_expected, scopes,
                   alert, upload_file, auth, auth_attempt, wait_timeout,
                   elapsed, ret, delivered,
                   dom, events, default_popup_response,
                   cookie_jar, py_jar, cookie_file, frame_size, viewport_size,
                   nlog, wait_callback>>

\* GhostWebPage.javaScriptPrompt
javaScriptPrompt(m) ==
    /\ InEngine
    /\ IF prompt_expected = NoExpect
       THEN /\ dialog' = [kind |-> "prompt", status |-> "error", answer |-> "", calls |-> 0]
            /\ UNCHANGED popup_messages
       ELSE /\ Len(popup_messages) < MaxPopups
            /\ append_popup_message(m)
            /\ dialog' = [kind |-> "prompt", status |-> "answered",
                          answer |-> get_value(prompt_expected),
                          calls |-> Calls(prompt_expected)]
    /\ UNCHANGED <<pc, cur, attrs, page_deleted, loaded, http_resources, nres,
                   replies, nav, doc, confirm_expected, prompt_expected, scopes,
                   alert, upload_file, auth, auth_attempt, wait_timeout,
                   elapsed, ret, delivered,
                   dom, events, default_popup_response,
                   cookie_jar, py_jar, cookie_file, frame_size, viewport_size,
                   nlog, wait_callback>>

----------------------------------------------------------------------------
(* The caller *)

\* The caller takes the outcome of the operation it called (a value or an
\* error) and goes on to its next statement.
resume ==
    /\ pc = "done"
    /\ pc' = "idle"
    /\ ret' = NoRet
    /\ UNCHANGED <<cur, attrs, page_deleted, loaded, http_resources, nres,
                   replies, nav, doc, confirm_expected, prompt_expected, scopes,
                   alert, popup_messages, upload_file, auth, auth_attempt,
                   wait_timeout, elapsed, dialog, delivered,
                   dom, events, default_popup_response,
                   cookie_jar, py_jar, cookie_file, frame_size, viewport_size,
                   nlog, wait_callback>>

----------------------------------------------------------------------------
(* Teardown *)

\* Session.exit, called directly (op = "exit") or by Session.__exit__.
\* On a torn-down session page.deleteLater() meets a deleted C++ object
\* (RuntimeError) or, failing that, del self.webview meets a missing
\* attribute (AttributeError).
SessionExit(op) ==
    /\ pc = "idle"
    /\ IF page_deleted
       THEN /\ \E e \in {"RuntimeError", "AttributeError"} : ret' = Raised(op, e)
            /\ pc' = "done"
            /\ UNCHANGED <<cur, page_deleted>>
       ELSE /\ page_deleted' = TRUE
            /\ pc' = "exit_pump"
            /\ cur' = [NoCur EXCEPT !.op = op]
            /\ UNCHANGED ret
    /\ UNCHANGED <<attrs, loaded, http_resources, nres, replies, nav, doc,
                   confirm_expected, prompt_expected, scopes, alert,
                   popup_messages, upload_file, auth, auth_attempt,
                   wait_timeout, elapsed, dialog, delivered,
                   dom, events, default_popup_response,
                   cookie_jar, py_jar, cookie_file, frame_size, viewport_size,
                   nlog, wait_callback>>

exit == SessionExit("exit")

context_exit == SessionExit("__exit__")

\* the rest of Session.exit, after self.sleep(): the four del statements
exit_end ==
    /\ pc = "exit_pump"
    /\ attrs' = attrs \ {"webview", "cookie_jar", "manager", "main_frame"}
    /\ pc' = "done"
    /\ cur' = NoCur
    /\ ret' = Returned(cur.op, <<>>)
    /\ UNCHANGED <<page_deleted, loaded, http_resources, nres, replies, nav,
                   doc, confirm_expected, prompt_expected, scopes, alert,
                   popup_messages, upload_file, auth, auth_attempt,
                   wait_timeout, elapsed, dialog, delivered,
                   dom, events, default_popup_response,
                   cookie_jar, py_jar, cookie_file, frame_size, viewport_size,
                   nlog, wait_callback>>

----------------------------------------------------------------------------
(* Scoped dialog expectations: with session.confirm(v): / session.prompt(v): *)

Top(s) == s[Len(s)]
Pop(s) == SubSeq(s, 1, Len(s) - 1)

\* A with-block the caller is inside: the kind of scope and its argument
Scope(kind, v) == [kind |-> kind, v |-> v]

\* Session.confirm up to its yield
confirm_enter(v) ==
    /\ pc = "idle"
    /\ Len(scopes) < MaxDepth
    /\ confirm_expected' = v
    /\ scopes' = Append(scopes, Scope("confirm", v))
    /\ ret' = Returned("confirm_enter", <<>>)
    /\ pc' = "done"
    /\ UNCHANGED <<cur, attrs, page_deleted, loaded, http_resources, nres,
                   replies, nav, doc, prompt_expected, alert, popup_messages,
                   upload_file, auth, auth_attempt, wait_timeout, elapsed,
                   dialog, delivered,
                   dom, events, default_popup_response,
                   cookie_jar, py_jar, cookie_file, frame_size, viewport_size,
                   nlog, wait_callback>>

\* confirm_exit without the assignment after the yield
confirm_exit_keeps ==
    /\ pc = "idle"
    /\ scopes # <<>>
    /\ Top(scopes).kind = "confirm"
    /\ scopes' = Pop(scopes)
    /\ ret' = Returned("confirm_exit", <<>>)
    /\ pc' = "done"
    /\ UNCHANGED <<cur, attrs, page_deleted, loaded, http_resources, nres,
                   replies, nav, doc, confirm_expected, prompt_expected, alert,
                   popup_messages, upload_file, auth, auth_attempt,
                   wait_timeout, elapsed, dialog, delivered,
                   dom, events, default_popup_response,
                   cookie_jar, py_jar, cookie_file, frame_size, viewport_size,
                   nlog, wait_callback>>

\* Session.confirm after its yield: the with-block ends normally
confirm_exit ==
    /\ pc = "idle"
    /\ scopes # <<>>
    /\ Top(scopes).kind = "confirm"
    /\ confirm_expected' = NoExpect
    /\ scopes' = Pop(scopes)
    /\ ret' = Returned("confirm_exit", <<>>)
    /\ pc' = "done"
    /\ UNCHANGED <<cur, attrs, page_deleted, loaded, http_resources, nres,
                   replies, nav, doc, prompt_expected, alert, popup_messages,
                   upload_file, auth, auth_attempt, wait_timeout, elapsed,
                   dialog, delivered,
                   dom, events, default_popup_response,
                   cookie_jar, py_jar, cookie_file, frame_size, viewport_size,
                   nlog, wait_callback>>

\* Session.confirm when the with-block raises: contextmanager throws the
\* error into the generator at its yield, and no try/finally surrounds the
\* yield, so the statement after it does not run; the error propagates.
confirm_raise ==
    /\ pc = "idle"
    /\ scopes # <<>>
    /\ Top(scopes).kind = "confirm"
    /\ scopes' = Pop(scopes)
    /\ ret' = Raised("confirm_exit", "error in with-block")
    /\ pc' = "done"
    /\ UNCHANGED <<cur, attrs, page_deleted, loaded, http_resources, nres,
                   replies, nav, doc, confirm_expected, prompt_expected, alert,
                   popup_messages, upload_file, auth, auth_attempt,
                   wait_timeout, elapsed, dialog, delivered,
                   dom, events, default_popup_response,
                   cookie_jar, py_jar, cookie_file, frame_size, viewport_size,
                   nlog, wait_callback>>

\* Session.prompt up to its yield
prompt_enter(v) ==
    /\ pc = "idle"
    /\ Len(scopes) < MaxDepth
    /\ prompt_expected' = v
    /\ scopes' = Append(scopes, Scope("prompt", v))
    /\ ret' = Returned("prompt_enter", <<>>)
    /\ pc' = "done"
    /\ UNCHANGED <<cur, attrs, page_deleted, loaded, http_resources, nres,
                   replies, nav, doc, confirm_expected, alert, popup_messages,
                   upload_file, auth, auth_attempt, wait_timeout, elapsed,
                   dialog, delivered,
                   dom, events, default_popup_response,
                   cookie_jar, py_jar, cookie_file, frame_size, viewport_size,
                   nlog, wait_callback>>

\* Session.prompt after its yield: the with-block ends normally
prompt_exit ==
    /\ pc = "idle"
    /\ scopes # <<>>
    /\ Top(scopes).kind = "prompt"
    /\ prompt_expected' = NoExpect
    /\ scopes' = Pop(scopes)
    /\ ret' = Returned("prompt_exit", <<>>)
    /\ pc' = "done"
    /\ UNCHANGED <<cur, attrs, page_deleted, loaded, http_resources, nres,
                   replies, nav, doc, confirm_expected, alert, popup_messages,
                   upload_file, auth, auth_attempt, wait_timeout, elapsed,
                   dialog, delivered,
                   dom, events, default_popup_response,
                   cookie_jar, py_jar, cookie_file, frame_size, viewport_size,
                   nlog, wait_callback>>

\* Session.prompt when the with-block raises
prompt_raise ==
    /\ pc = "idle"
    /\ scopes # <<>>
    /\ Top(scopes).kind = "prompt"
    /\ scopes' = Pop(scopes)
    /\ ret' = Raised("prompt_exit", "error in with-block")
    /\ pc' = "done"
    /\ UNCHANGED <<cur, attrs, page_deleted, loaded, http_resources, nres,
                   replies, nav, doc, confirm_expected, prompt_expected, alert,
                   popup_messages, upload_file, auth, auth_attempt,
                   wait_timeout, elapsed, dialog, delivered,
                   dom, events, default_popup_response,
                   cookie_jar, py_jar, cookie_file, frame_size, viewport_size,
                   nlog, wait_callback>>

----------------------------------------------------------------------------
(* Wait Primitive *)

\* timeout = self.wait_timeout if timeout is None else timeout
Resolve(t) == IF t = NoTimeout THEN wait_timeout ELSE t

\* the condition each wait_for_* passes to wait_for
Condition(kind, sel) ==
    CASE kind = "wait_for_page_loaded" -> loaded
      [] kind = "wait_for_selector" -> sel \in Matches(doc)
      [] kind = "wait_while_selector" -> sel \notin Matches(doc)
      [] kind = "wait_for_text" -> sel \in Content(doc)
      [] kind = "wait_for_alert" -> alert # None

\* the timeout_message each wait_for_* passes to wait_for
TimeoutMessage(kind, sel) ==
    CASE kind = "wait_for_page_loaded" -> <<"Unable to load requested page">>
      [] kind = "wait_for_selector" -> <<"Can't find element matching", sel>>
      [] kind = "wait_while_selector" -> <<"Element matching", sel, "is still available">>
      [] kind = "wait_for_text" -> <<"Can't find", sel, "in current frame">>
      [] kind = "wait_for_alert" -> <<"User has not been alerted.">>

\* wait_for_page_loaded compares the frame URL with an exact match only
PageMatch_exact(resources, url) ==
    {i \in 1..Len(resources) : url = resources[i].url}

\* wait_for_page_loaded: the resources whose URL is the frame URL or the
\* frame URL without its fragment
PageMatch(resources, url) ==
    {i \in 1..Len(resources) :
        url = resources[i].url \/ WithoutHash(url) = resources[i].url}

\* wait_for_page_loaded taking the first resource as the page
Page_first(resources, url) ==
    IF resources = <<>> THEN <<>> ELSE <<resources[1]>>

\* wait_for_page_loaded: page after the loop over resources, as a list (the
\* last resource that matches; empty for None)
Page(resources, url) ==
    LET m == PageMatch(resources, url)
    IN IF m = {} THEN <<>>
       ELSE <<resources[CHOOSE i \in m : \A j \in m : j <= i]>>

\* the first element of the tuple a wait_for_* operation returns, when it
\* is not the page
WaitValue(kind) ==
    CASE kind = "wait_for_page_loaded" -> ""
      [] kind = "wait_for_alert" -> alert
      [] OTHER -> "True"

\* entry of wait_for, from one of the wait_for_* operations
WaitBegin(kind, sel, t) ==
    /\ pc = "idle"
    /\ Alive
    /\ pc' = "wait_check"
    /\ cur' = [NoCur EXCEPT !.op = kind, !.wait = kind, !.sel = sel,
                            !.timeout = Resolve(t)]
    /\ elapsed' = 0
    /\ UNCHANGED <<attrs, page_deleted, loaded, http_resources, nres, replies,
                   nav, doc, confirm_expected, prompt_expected, scopes, alert,
                   popup_messages, upload_file, auth, auth_attempt,
                   wait_timeout, dialog, ret, delivered,
                   dom, events, default_popup_response,
                   cookie_jar, py_jar, cookie_file, frame_size, viewport_size,
                   nlog, wait_callback>>

wait_for_page_loaded(t) == WaitBegin("wait_for_page_loaded", "", t)
wait_for_selector(sel, t) == WaitBegin("wait_for_selector", sel, t)
wait_while_selector(sel, t) == WaitBegin("wait_while_selector", sel, t)
wait_for_text(text, t) == WaitBegin("wait_for_text", text, t)
wait_for_alert(t) == WaitBegin("wait_for_alert", "", t)

\* wait_for_alert returning the message without self._alert = None
wait_for_return_keeps_alert ==
    /\ pc = "wait_check"
    /\ Condition(cur.wait, cur.sel)
    /\ ret' = Result(cur.op, WaitValue(cur.wait),
                      IF cur.wait = "wait_for_page_loaded"
                      THEN Page(http_resources, FrameUrl(doc)) ELSE <<>>,
                      http_resources)
    /\ delivered' = delivered \cup Serials(http_resources)
    /\ http_resources' = release_last_resources(http_resources)
    /\ alert' = alert
    /\ pc' = "done"
    /\ cur' = NoCur
    /\ UNCHANGED <<attrs, page_deleted, loaded, nres, replies, nav, doc,
                   confirm_expected, prompt_expected, scopes, popup_messages,
                   upload_file, auth, auth_attempt, wait_timeout, elapsed,
                   dialog, dom, events, default_popup_response,
                   cookie_jar, py_jar, cookie_file, frame_size, viewport_size,
                   nlog, wait_callback>>

\* wait_for: the condition is true; the wait_for_* operation drains the
\* buffer and returns it
wait_for_return ==
    /\ pc = "wait_check"
    /\ Condition(cur.wait, cur.sel)
    /\ ret' = Result(cur.op, WaitValue(cur.wait),
                      IF cur.wait = "wait_for_page_loaded"
                      THEN Page(http_resources, FrameUrl(doc)) ELSE <<>>,
                      http_resources)
    /\ delivered' = delivered \cup Serials(http_resources)
    /\ http_resources' = release_last_resources(http_resources)
    /\ alert' = IF cur.wait = "wait_for_alert" THEN None ELSE alert
    /\ pc' = "done"
    /\ cur' = NoCur
    /\ UNCHANGED <<attrs, page_deleted, loaded, nres, replies, nav, doc,
                   confirm_expected, prompt_expected, scopes, popup_messages,
                   upload_file, auth, auth_attempt, wait_timeout, elapsed,
                   dialog, dom, events, default_popup_response,
                   cookie_jar, py_jar, cookie_file, frame_size, viewport_size,
                   nlog, wait_callback>>

\* wait_for raising as soon as the deadline is reached
wait_for_raise_at_deadline ==
    /\ pc = "wait_check"
    /\ ~Condition(cur.wait, cur.sel)
    /\ elapsed >= cur.timeout
    /\ ret' = RaisedWith(cur.op, "TimeoutError", TimeoutMessage(cur.wait, cur.sel))
    /\ pc' = "done"
    /\ cur' = NoCur
    /\ UNCHANGED <<attrs, page_deleted, loaded, http_resources, nres, replies,
                   nav, doc, confirm_expected, prompt_expected, scopes, alert,
                   popup_messages, upload_file, auth, auth_attempt,
                   wait_timeout, elapsed, dialog, delivered,
                   dom, events, default_popup_response,
                   cookie_jar, py_jar, cookie_file, frame_size, viewport_size,
                   nlog, wait_callback>>

\* wait_for testing the deadline before the condition
wait_for_raise_deadline_first ==
    /\ pc = "wait_check"
    /\ elapsed > cur.timeout
    /\ ret' = RaisedWith(cur.op, "TimeoutError", TimeoutMessage(cur.wait, cur.sel))
    /\ pc' = "done"
    /\ cur' = NoCur
    /\ UNCHANGED <<attrs, page_deleted, loaded, http_resources, nres, replies,
                   nav, doc, confirm_expected, prompt_expected, scopes, alert,
                   popup_messages, upload_file, auth, auth_attempt,
                   wait_timeout, elapsed, dialog, delivered,
                   dom, events, default_popup_response,
                   cookie_jar, py_jar, cookie_file, frame_size, viewport_size,
                   nlog, wait_callback>>

\* wait_for measuring the time from the current iteration
wait_for_raise_restarted ==
    /\ pc = "wait_check"
    /\ ~Condition(cur.wait, cur.sel)
    /\ 0 > cur.timeout
    /\ ret' = RaisedWith(cur.op, "TimeoutError", TimeoutMessage(cur.wait, cur.sel))
    /\ pc' = "done"
    /\ cur' = NoCur
    /\ UNCHANGED <<attrs, page_deleted, loaded, http_resources, nres, replies,
                   nav, doc, confirm_expected, prompt_expected, scopes, alert,
                   popup_messages, upload_file, auth, auth_attempt,
                   wait_timeout, elapsed, dialog, delivered,
                   dom, events, default_popup_response,
                   cookie_jar, py_jar, cookie_file, frame_size, viewport_size,
                   nlog, wait_callback>>

\* wait_for_* releasing the buffer when the wait times out
wait_for_raise_drains ==
    /\ pc = "wait_check"
    /\ ~Condition(cur.wait, cur.sel)
    /\ elapsed > cur.timeout
    /\ ret' = RaisedWith(cur.op, "TimeoutError", TimeoutMessage(cur.wait, cur.sel))
    /\ http_resources' = release_last_resources(http_resources)
    /\ pc' = "done"
    /\ cur' = NoCur
    /\ UNCHANGED <<attrs, page_deleted, loaded, nres, replies,
                   nav, doc, confirm_expected, prompt_expected, scopes, alert,
                   popup_messages, upload_file, auth, auth_attempt,
                   wait_timeout, elapsed, dialog, delivered,
                   dom, events, default_popup_response,
                   cookie_jar, py_jar, cookie_file, frame_size, viewport_size,
                   nlog, wait_callback>>

\* wait_for: the condition is false and time.time() > started_at + timeout
wait_for_raise ==
    /\ pc = "wait_check"
    /\ ~Condition(cur.wait, cur.sel)
    /\ elapsed > cur.timeout
    /\ ret' = RaisedWith(cur.op, "TimeoutError", TimeoutMessage(cur.wait, cur.sel))
    /\ pc' = "done"
    /\ cur' = NoCur
    /\ UNCHANGED <<attrs, page_deleted, loaded, http_resources, nres, replies,
                   nav, doc, confirm_expected, prompt_expected, scopes, alert,
                   popup_messages, upload_file, auth, auth_attempt,
                   wait_timeout, elapsed, dialog, delivered,
                   dom, events, default_popup_response,
                   cookie_jar, py_jar, cookie_file, frame_size, viewport_size,
                   nlog, wait_callback>>

\* wait_for: the condition is false and the deadline has not passed:
\* self.sleep() starts pumping
wait_for_sleep ==
    /\ pc = "wait_check"
    /\ ~Condition(cur.wait, cur.sel)
    /\ ~(elapsed > cur.timeout)
    /\ pc' = "wait_pump"
    /\ UNCHANGED <<cur, attrs, page_deleted, loaded, http_resources, nres,
                   replies, nav, doc, confirm_expected, prompt_expected, scopes,
                   alert, popup_messages, upload_file, auth, auth_attempt,
                   wait_timeout, elapsed, dialog, ret, delivered,
                   dom, events, default_popup_response,
                   cookie_jar, py_jar, cookie_file, frame_size, viewport_size,
                   nlog, wait_callback>>

\* wait_for invoking the callback twice in an iteration
invoke_wait_callback_twice(n) == IF wait_callback # None THEN n + 2 ELSE n

\* if self.wait_callback is not None: self.wait_callback()
\* (n: the invocations made so far in this wait)
invoke_wait_callback(n) == IF wait_callback # None THEN n + 1 ELSE n

\* wait_for: self.sleep() is over, at least one poll interval later, and
\* the wait_callback, if any, is invoked; the clock saturates at the
\* latest time a check can be made.
wait_for_wake ==
    /\ pc = "wait_pump"
    /\ \E d \in 1..MaxPoll : elapsed' = Min(elapsed + d, MaxTimeout + MaxPoll)
    /\ cur' = [cur EXCEPT !.callbacks = invoke_wait_callback(cur.callbacks)]
    /\ pc' = "wait_check"
    /\ UNCHANGED <<attrs, page_deleted, loaded, http_resources, nres,
                   replies, nav, doc, confirm_expected, prompt_expected, scopes,
                   alert, popup_messages, upload_file, auth, auth_attempt,
                   wait_timeout, dialog, ret, delivered,
                   dom, events, default_popup_response,
                   cookie_jar, py_jar, cookie_file, frame_size, viewport_size,
                   nlog, wait_callback>>

\* Session.sleep called outside a wait (by the caller, show, set_viewport_size)
sleep ==
    /\ pc = "idle"
    /\ Alive
    /\ pc' = "sleep_pump"
    /\ cur' = [NoCur EXCEPT !.op = "sleep"]
    /\ UNCHANGED <<attrs, page_deleted, loaded, http_resources, nres, replies,
                   nav, doc, confirm_expected, prompt_expected, scopes, alert,
                   popup_messages, upload_file, auth, auth_attempt,
                   wait_timeout, elapsed, dialog, ret, delivered,
                   dom, events, default_popup_response,
                   cookie_jar, py_jar, cookie_file, frame_size, viewport_size,
                   nlog, wait_callback>>

\* the end of that sleep(), and of the operation that called it
sleep_end ==
    /\ pc = "sleep_pump"
    /\ pc' = "done"
    /\ cur' = NoCur
    /\ ret' = Returned(cur.op, <<>>)
    /\ UNCHANGED <<attrs, page_deleted, loaded, http_resources, nres, replies,
                   nav, doc, confirm_expected, prompt_expected, scopes, alert,
                   popup_messages, upload_file, auth, auth_attempt,
                   wait_timeout, elapsed, dialog, delivered,
                   dom, events, default_popup_response,
                   cookie_jar, py_jar, cookie_file, frame_size, viewport_size,
                   nlog, wait_callback>>

\* Session.clear_alert_message
clear_alert_message ==
    /\ pc = "idle"
    /\ alert' = None
    /\ ret' = Returned("clear_alert_message", <<>>)
    /\ pc' = "done"
    /\ UNCHANGED <<cur, attrs, page_deleted, loaded, http_resources, nres,
                   replies, nav, doc, confirm_expected, prompt_expected, scopes,
                   popup_messages, upload_file, auth, auth_attempt,
                   wait_timeout, elapsed, dialog, delivered,
                   dom, events, default_popup_response,
                   cookie_jar, py_jar, cookie_file, frame_size, viewport_size,
                   nlog, wait_callback>>

----------------------------------------------------------------------------
(* Operations wrapped by can_load_page *)

\* Session.set_field_value on one selector: the error it raises, if any ...
SetFieldErr(sel, d) ==
    IF sel \notin Matches(d) THEN "can't find element"
    ELSE IF TagName(sel) \notin {"select", "textarea", "input"}
    THEN "unsupported field tag"
    ELSE ""

\* ... and whether it reaches self.click(selector), whose evaluate releases
\* the resource buffer (the input type=file branch)
SetFieldClicks(sel, d) ==
    /\ SetFieldErr(sel, d) = ""
    /\ TagName(sel) = "input"
    /\ TypeAttr(sel) = "file"

\* Session.fill iterates its field map in order and stops at the first error
FirstErr(fields, d) ==
    LET bad == {i \in 1..Len(fields) : SetFieldErr(fields[i], d) # ""}
    IN IF bad = {} THEN 0 ELSE CHOOSE i \in bad : \A j \in bad : i <= j

FieldsDone(fields, d) ==
    IF FirstErr(fields, d) = 0 THEN 1..Len(fields)
    ELSE 1..(FirstErr(fields, d) - 1)

\* the input types for which set_field_value calls _set_text_value
TextTypes == {"color", "date", "datatime", "datetime-local", "email", "hidden",
              "month", "number", "password", "range", "search", "tel", "text",
              "time", "url", "week", ""}

Range(s) == {s[i] : i \in 1..Len(s)}

\* _set_checkbox_value
set_checkbox_value(value) == IF value = PyTrue THEN "checked" ELSE ""

\* set_field_value taking every checkbox for a single one
SetFieldDom_single(f, sel, value) ==
    LET els == Elems(sel)
        element == els[1]
    IN CASE TagName(sel) = "select" ->
              IF value \in Range(Options) THEN [f EXCEPT ![element] = value] ELSE f
         [] TagName(sel) = "textarea" -> [f EXCEPT ![element] = value]
         [] TagName(sel) = "input" /\ TypeAttr(sel) \in TextTypes ->
              [f EXCEPT ![element] = value]
         [] TagName(sel) = "input" /\ TypeAttr(sel) = "checkbox" ->
              [f EXCEPT ![element] = set_checkbox_value(value)]
         [] TagName(sel) = "input" /\ TypeAttr(sel) = "radio" ->
              [e \in Fields |->
                  IF e \in Range(els) /\ ValueAttr(e) = value THEN "checked" ELSE f[e]]
         [] OTHER -> f

\* Session.set_field_value, the dispatch on tag and type (lines 975-1015)
\* once the element is found and its tag is supported: the controls f after
\* the assignment.  An input of type file, and an input whose type no
\* branch names, get no assignment.
SetFieldDom(f, sel, value) ==
    LET els == Elems(sel)
        element == els[1]
    IN CASE TagName(sel) = "select" ->
              IF value \in Range(Options) THEN [f EXCEPT ![element] = value] ELSE f
         [] TagName(sel) = "textarea" -> [f EXCEPT ![element] = value]
         [] TagName(sel) = "input" /\ TypeAttr(sel) \in TextTypes ->
              [f EXCEPT ![element] = value]
         [] TagName(sel) = "input" /\ TypeAttr(sel) = "checkbox" ->
              IF Len(els) > 1
              THEN [e \in Fields |->
                       IF e \in Range(els)
                       THEN set_checkbox_value(IF ValueAttr(e) = value
                                               THEN PyTrue ELSE PyFalse)
                       ELSE f[e]]
              ELSE [f EXCEPT ![element] = set_checkbox_value(value)]
         [] TagName(sel) = "input" /\ TypeAttr(sel) = "radio" ->
              [e \in Fields |->
                  IF e \in Range(els) /\ ValueAttr(e) = value THEN "checked" ELSE f[e]]
         [] OTHER -> f

\* an event dispatched to an element
Event(e, name) == [on |-> e, name |-> name]

\* set_field_value firing the change event only
SetFieldEvents_change(sel, blur) ==
    LET element == Elems(sel)[1]
    IN (IF TagName(sel) = "input" /\ TypeAttr(sel) = "file"
        THEN <<Event(element, "click")>> ELSE <<>>)
       \o <<Event(element, "change")>>
       \o (IF blur THEN <<Event(element, "blur")>> ELSE <<>>)

\* Session.set_field_value: the events it dispatches to the first element
\* the selector matches: the click of the file branch, then input and
\* change (fire), then blur (call) unless blur is False
SetFieldEvents(sel, blur) ==
    LET element == Elems(sel)[1]
    IN (IF TagName(sel) = "input" /\ TypeAttr(sel) = "file"
        THEN <<Event(element, "click")>> ELSE <<>>)
       \o <<Event(element, "input"), Event(element, "change")>>
       \o (IF blur THEN <<Event(element, "blur")>> ELSE <<>>)

\* fill leaving its loop after the first entry
DoneCount_one(fields, d) ==
    IF Len(fields) = 0 \/ FirstErr(fields, d) = 1 THEN 0 ELSE 1

\* Session.fill: how many entries of the field map its loop gets through
DoneCount(fields, d) ==
    IF FirstErr(fields, d) = 0 THEN Len(fields) ELSE FirstErr(fields, d) - 1

\* Session.fill: the controls, and the events fired, after the first n
\* entries of the field map have gone through set_field_value
RECURSIVE FillDom(_, _, _, _)
FillDom(f, fields, values, n) ==
    IF n = 0 THEN f
    ELSE SetFieldDom(FillDom(f, fields, values, n - 1), fields[n], values[n])

RECURSIVE FillEvents(_, _)
FillEvents(fields, n) ==
    IF n = 0 THEN <<>>
    ELSE FillEvents(fields, n - 1) \o SetFieldEvents(fields[n], TRUE)

\* The controls after the wrapped function's engine calls (c: the call;
\* f: the controls before; d: the document)
FuncDom(c, f, d) ==
    CASE c.op = "set_field_value" ->
           IF SetFieldErr(c.sel, d) = "" THEN SetFieldDom(f, c.sel, c.value) ELSE f
      [] c.op = "fill" ->
           IF c.sel \in Matches(d)
           THEN FillDom(f, c.fields, c.values, DoneCount(c.fields, d))
           ELSE f
      [] OTHER -> f

\* The events the wrapped function dispatches to elements
FuncEvents(c, d) ==
    CASE c.op = "set_field_value" ->
           IF SetFieldErr(c.sel, d) = "" THEN SetFieldEvents(c.sel, c.blur) ELSE <<>>
      [] c.op = "fill" ->
           IF c.sel \in Matches(d)
           THEN FillEvents(c.fields, DoneCount(c.fields, d))
           ELSE <<>>
      [] c.op = "click" ->
           IF c.sel \in Matches(d) THEN <<Event(Elems(c.sel)[1], "click")>> ELSE <<>>
      [] c.op = "fire" ->
           IF c.sel \in Matches(d) THEN <<Event(Elems(c.sel)[1], c.value)>> ELSE <<>>
      [] OTHER -> <<>>

\* The error the wrapped function raises (c: op, sel, fields; d: document)
FuncErr(c, d) ==
    CASE c.op = "click" ->
           IF c.sel \notin Matches(d) THEN "Can't find element to click" ELSE ""
      [] c.op = "set_field_value" -> SetFieldErr(c.sel, d)
      [] c.op = "fill" ->
           IF c.sel \notin Matches(d) THEN "Can't find form"
           ELSE IF FirstErr(c.fields, d) = 0 THEN ""
           ELSE SetFieldErr(c.fields[FirstErr(c.fields, d)], d)
      [] OTHER -> ""

\* evaluate without its call of self._release_last_resources()
FuncDrains_not_evaluate(c, d) ==
    CASE c.op = "set_field_value" -> SetFieldClicks(c.sel, d)
      [] c.op = "fill" ->
           /\ c.sel \in Matches(d)
           /\ \E i \in FieldsDone(c.fields, d) : SetFieldClicks(c.fields[i], d)
      [] OTHER -> FALSE

\* click without the release of the buffer that its evaluate call makes
FuncDrains_not_click(c, d) ==
    CASE c.op = "evaluate" -> TRUE
      [] c.op = "set_field_value" -> SetFieldClicks(c.sel, d)
      [] c.op = "fill" ->
           /\ c.sel \in Matches(d)
           /\ \E i \in FieldsDone(c.fields, d) : SetFieldClicks(c.fields[i], d)
      [] OTHER -> FALSE

\* Whether the wrapped function calls self._release_last_resources()
FuncDrains(c, d) ==
    CASE c.op = "evaluate" -> TRUE
      [] c.op = "click" -> c.sel \in Matches(d)
      [] c.op = "set_field_value" -> SetFieldClicks(c.sel, d)
      [] c.op = "fill" ->
           /\ c.sel \in Matches(d)
           /\ \E i \in FieldsDone(c.fields, d) : SetFieldClicks(c.fields[i], d)
      [] OTHER -> FALSE

\* Whether the wrapped function reaches an engine call that runs page script
FuncActs(c, d) ==
    CASE c.op = "click" -> c.sel \in Matches(d)
      [] c.op = "set_field_value" -> SetFieldErr(c.sel, d) = ""
      [] c.op = "fill" -> c.sel \in Matches(d) /\ FieldsDone(c.fields, d) # {}
      [] OTHER -> TRUE

\* self._upload_file = value: the value staged for the file input that
\* set_field_value clicks on (for fill, the last file input of the map
\* that its loop gets to)
UploadValue(c, d) ==
    IF c.op = "fill"
    THEN c.values[Last({i \in FieldsDone(c.fields, d) : SetFieldClicks(c.fields[i], d)})]
    ELSE c.value

\* every wrapped function returning True as its first element
FuncValue_true(c) == "True"

\* The first element of what the wrapped function returns: the value of
\* evaluateJavaScript, or True (fill), or None (set_field_value that does
\* not click)
FuncValue(c) ==
    CASE c.op = "fill" -> "True"
      [] c.op = "set_field_value" -> IF c.drains THEN "result" ELSE "None"
      [] OTHER -> "result"

\* the wrapper putting loaded back when func fails
wrapper_restores_loaded(c, el, t) ==
    /\ pc = "idle"
    /\ Alive
    /\ loaded' = IF el /\ FuncErr(c, doc) = "" THEN FALSE ELSE loaded
    /\ dom' = FuncDom(c, dom, doc)
    /\ events' = FuncEvents(c, doc)
    /\ IF FuncActs(c, doc)
       THEN /\ pc' = "act"
            /\ cur' = [NoCur EXCEPT !.op = c.op, !.sel = c.sel,
                                    !.fields = c.fields, !.el = el,
                                    !.timeout = t, !.err = FuncErr(c, doc),
                                    !.drains = FuncDrains(c, doc),
                                    !.value = c.value, !.blur = c.blur]
            /\ upload_file' = IF FuncDrains(c, doc) /\ c.op \in {"set_field_value", "fill"}
                              THEN UploadValue(c, doc) ELSE upload_file
            /\ UNCHANGED ret
       ELSE /\ ret' = IF FuncErr(c, doc) # "" THEN Raised(c.op, FuncErr(c, doc))
                      ELSE Returned(c.op, <<>>)
            /\ pc' = "done"
            /\ UNCHANGED <<cur, upload_file>>
    /\ UNCHANGED <<attrs, page_deleted, http_resources, nres, replies, nav, doc,
                   confirm_expected, prompt_expected, scopes, alert,
                   popup_messages, auth, auth_attempt, wait_timeout, elapsed,
                   dialog, delivered, default_popup_response,
                   cookie_jar, py_jar, cookie_file, frame_size, viewport_size,
                   nlog, wait_callback>>

\* can_load_page.wrapper up to the end of func's own engine calls (the
\* assignments to the controls and the events dispatched); the page script
\* that these calls set off runs while the caller is at "act"
wrapper(c, el, t) ==
    /\ pc = "idle"
    /\ Alive
    /\ loaded' = IF el THEN FALSE ELSE loaded
    /\ dom' = FuncDom(c, dom, doc)
    /\ events' = FuncEvents(c, doc)
    /\ IF FuncActs(c, doc)
       THEN /\ pc' = "act"
            /\ cur' = [NoCur EXCEPT !.op = c.op, !.sel = c.sel,
                                    !.fields = c.fields, !.el = el,
                                    !.timeout = t, !.err = FuncErr(c, doc),
                                    !.drains = FuncDrains(c, doc),
                                    !.value = c.value, !.blur = c.blur]
            /\ upload_file' = IF FuncDrains(c, doc) /\ c.op \in {"set_field_value", "fill"}
                              THEN UploadValue(c, doc) ELSE upload_file
            /\ UNCHANGED ret
       ELSE /\ ret' = IF FuncErr(c, doc) # "" THEN Raised(c.op, FuncErr(c, doc))
                      ELSE Returned(c.op, <<>>)
            /\ pc' = "done"
            /\ UNCHANGED <<cur, upload_file>>
    /\ UNCHANGED <<attrs, page_deleted, http_resources, nres, replies, nav, doc,
                   confirm_expected, prompt_expected, scopes, alert,
                   popup_messages, auth, auth_attempt, wait_timeout, elapsed,
                   dialog, delivered, default_popup_response,
                   cookie_jar, py_jar, cookie_file, frame_size, viewport_size,
                   nlog, wait_callback>>

\* A call of a wrapped operation: its selector; for set_field_value the
\* value and blur; for fill the field map as the list of its field
\* selectors and the list of their values; for fire the event name (value)
Call(op, sel, fields) ==
    [op |-> op, sel |-> sel, fields |-> fields, value |-> "",
     values |-> <<>>, blur |-> TRUE]

call(sel, el, t) == wrapper(Call("call", sel, <<>>), el, t)
click(sel, el, t) == wrapper(Call("click", sel, <<>>), el, t)
evaluate(el, t) == wrapper(Call("evaluate", "", <<>>), el, t)
fill(sel, fields, values, el, t) ==
    wrapper([Call("fill", sel, fields) EXCEPT !.values = values], el, t)
fire(sel, el, t) ==
    wrapper([Call("fire", sel, <<>>) EXCEPT !.value = "event"], el, t)
set_field_value(sel, value, blur, el, t) ==
    wrapper([Call("set_field_value", sel, <<>>) EXCEPT !.value = value,
                                                       !.blur = blur], el, t)

\* GhostWebPage.choose_file: what the hook returns when it is called
choose_file == upload_file

\* The click on a file input makes the engine ask the page for a file, by
\* calling the virtual QWebPage.chooseFile.  GhostWebPage defines no method
\* of that name (its hook is named choose_file), so the engine's own
\* implementation answers, with no file unless somebody picks one in the
\* dialog it shows, and session._upload_file is not read.
chooseFile ==
    /\ pc = "act"
    /\ cur.drains
    /\ cur.op \in {"set_field_value", "fill"}
    /\ dialog.kind # "file"
    /\ dialog' = [kind |-> "file", status |-> "default", answer |-> "",
                  calls |-> 0]
    /\ UNCHANGED <<pc, cur, attrs, page_deleted, loaded, http_resources, nres,
                   replies, nav, doc, confirm_expected, prompt_expected, scopes,
                   alert, popup_messages, upload_file, auth, auth_attempt,
                   wait_timeout, elapsed, ret, delivered,
                   dom, events, default_popup_response,
                   cookie_jar, py_jar, cookie_file, frame_size, viewport_size,
                   nlog, wait_callback>>

\* can_load_page.wrapper from the end of func's engine calls: func releases
\* the buffer if it does, then raises, or returns to the wrapper, which
\* either returns func's result or drops it and waits for the page load
wrapper_return ==
    /\ pc = "act"
    /\ http_resources' = IF cur.drains THEN release_last_resources(http_resources)
                         ELSE http_resources
    /\ upload_file' = None
    /\ IF cur.err # ""
       THEN /\ ret' = Raised(cur.op, cur.err)
            /\ pc' = "done"
            /\ cur' = NoCur
            /\ UNCHANGED <<elapsed, delivered,
                   dom, events, default_popup_response,
                   cookie_jar, py_jar, cookie_file, frame_size, viewport_size,
                   nlog, wait_callback>>
       ELSE IF cur.el
       THEN /\ pc' = "wait_check"
            /\ cur' = [cur EXCEPT !.wait = "wait_for_page_loaded",
                                  !.timeout = Resolve(cur.timeout)]
            /\ elapsed' = 0
            /\ UNCHANGED <<ret, delivered,
                   dom, events, default_popup_response,
                   cookie_jar, py_jar, cookie_file, frame_size, viewport_size,
                   nlog, wait_callback>>
       ELSE /\ ret' = Result(cur.op, FuncValue(cur), <<>>,
                             IF cur.drains THEN http_resources ELSE <<>>)
            /\ delivered' = IF cur.drains THEN delivered \cup Serials(http_resources)
                            ELSE delivered
            /\ pc' = "done"
            /\ cur' = NoCur
            /\ UNCHANGED elapsed
    /\ UNCHANGED <<attrs, page_deleted, loaded, nres, replies, nav, doc,
                   confirm_expected, prompt_expected, scopes, alert,
                   popup_messages, auth, auth_attempt, wait_timeout, dialog,
                   dom, events, default_popup_response,
                   cookie_jar, py_jar, cookie_file, frame_size, viewport_size,
                   nlog, wait_callback>>

----------------------------------------------------------------------------
(* Session.open *)

Methods == {"get", "bogus"}
Auths == {None, "creds"}

\* Session.open up to and including self.main_frame.load(request, method, body)
open(method, a, popup, wait, t) ==
    /\ pc = "idle"
    /\ Alive
    /\ IF method = "bogus"
       THEN /\ ret' = Raised("open", "Invalid http method")
            /\ pc' = "done"
            /\ UNCHANGED <<cur, auth, auth_attempt, nav>>
       ELSE /\ auth' = a
            /\ auth_attempt' = 0
            /\ nav' = "opening"
            /\ pc' = "open_load"
            /\ cur' = [NoCur EXCEPT !.op = "open", !.el = wait, !.timeout = t,
                                    !.popup = popup]
            /\ UNCHANGED ret
    /\ UNCHANGED <<attrs, page_deleted, loaded, http_resources, nres, replies,
                   doc, confirm_expected, prompt_expected, scopes, alert,
                   popup_messages, upload_file, wait_timeout, elapsed, dialog,
                   delivered,
                   dom, events, default_popup_response,
                   cookie_jar, py_jar, cookie_file, frame_size, viewport_size,
                   nlog, wait_callback>>

\* Session.open after main_frame.load has returned
open_end ==
    /\ pc = "open_load"
    /\ loaded' = FALSE
    /\ prompt_expected' = IF cur.popup # NoExpect THEN cur.popup ELSE prompt_expected
    /\ confirm_expected' = IF cur.popup # NoExpect THEN cur.popup ELSE confirm_expected
    /\ default_popup_response' = IF cur.popup # NoExpect THEN cur.popup
                                 ELSE default_popup_response
    /\ IF ~cur.el
       THEN /\ ret' = Returned("open", <<>>)
            /\ pc' = "done"
            /\ cur' = NoCur
            /\ UNCHANGED elapsed
       ELSE IF cur.timeout = NoTimeout
       THEN \* print('waiting ... (in %d seconds)' % timeout) with timeout None
            /\ ret' = Raised("open", "TypeError")
            /\ pc' = "done"
            /\ cur' = NoCur
            /\ UNCHANGED elapsed
       ELSE /\ pc' = "wait_check"
            /\ cur' = [cur EXCEPT !.wait = "wait_for_page_loaded"]
            /\ elapsed' = 0
            /\ UNCHANGED ret
    /\ UNCHANGED <<attrs, page_deleted, http_resources, nres, replies, nav, doc,
                   scopes, alert, popup_messages, upload_file, auth,
                   auth_attempt, wait_timeout, dialog, delivered,
                   dom, events,
                   cookie_jar, py_jar, cookie_file, frame_size, viewport_size,
                   nlog, wait_callback>>

----------------------------------------------------------------------------
(* Authentication *)

\* Session._authenticate, connected to authenticationRequired and
\* proxyAuthenticationRequired: the engine asks for credentials for an
\* exchange in progress.  Before the first open the session has no _auth
\* attribute and reading it fails.  With credentials pending and no attempt
\* made, the handler calls authenticator.serUser, a method QAuthenticator
\* does not have: the AttributeError ends the handler before setPassword
\* and before the attempt is counted.  Otherwise the handler does nothing.
authenticate ==
    /\ Pumping
    /\ \E r \in ReplyIds : replies[r].st = "open"
    /\ dialog' = IF auth = Unset \/ (auth # None /\ auth_attempt = 0)
                 THEN [kind |-> "auth", status |-> "error", answer |-> "", calls |-> 0]
                 ELSE [kind |-> "auth", status |-> "ignored", answer |-> "", calls |-> 0]
    /\ UNCHANGED <<pc, cur, attrs, page_deleted, loaded, http_resources, nres,
                   replies, nav, doc, confirm_expected, prompt_expected, scopes,
                   alert, popup_messages, upload_file, auth, auth_attempt,
                   wait_timeout, elapsed, ret, delivered,
                   dom, events, default_popup_response,
                   cookie_jar, py_jar, cookie_file, frame_size, viewport_size,
                   nlog, wait_callback>>

----------------------------------------------------------------------------
(* Cookie Bridge *)

\* str() of a QByteArray, under Python 3: the text of its bytes literal
str(b) == "b'" \o b \o "'"

\* QDateTime.toTime_t(): uint(-1) for an invalid date
toTime_t(t) == IF t = NoTime THEN UintMax ELSE t

\* save_cookies.toPyCookie
toPyCookie(QtCookie) ==
    LET v == QtCookie.path
        e == toTime_t(QtCookie.expires)
    IN Cookie(str(QtCookie.name), str(QtCookie.value), QtCookie.domain,
              IF v # "" THEN v ELSE None, v # "", QtCookie.secure,
              IF Gt(e, IntMax) THEN IntMax ELSE e)

\* load_cookies.toQtCookie: the cookie is built from the name and value as
\* given; path, domain and expiration date are set under the conditions of
\* lines 749-756
toQtCookie(PyCookie) ==
    QNetworkCookie(PyCookie.name, PyCookie.value, PyCookie.secure,
                   IF PyCookie.path_specified THEN PyCookie.path ELSE "",
                   IF PyCookie.domain # "" THEN PyCookie.domain ELSE "",
                   IF PyCookie.expires # NoTime /\ PyCookie.expires # Time(0, 0)
                   THEN PyCookie.expires ELSE NoTime)

\* CookieJar.set_cookie: the jar keeps its cookies by domain, then path,
\* then name, and iterates in that nesting; a cookie of the same three
\* replaces the one held
set_cookie(jar, c) ==
    LET n == {i \in 1..Len(jar) : jar[i].domain = c.domain /\ jar[i].path = c.path
                                   /\ jar[i].name = c.name}
        p == {i \in 1..Len(jar) : jar[i].domain = c.domain /\ jar[i].path = c.path}
        d == {i \in 1..Len(jar) : jar[i].domain = c.domain}
        After(k) == SubSeq(jar, 1, k) \o <<c>> \o SubSeq(jar, k + 1, Len(jar))
    IN IF n # {} THEN [jar EXCEPT ![Last(n)] = c]
       ELSE IF p # {} THEN After(Last(p))
       ELSE IF d # {} THEN After(Last(d))
       ELSE Append(jar, c)

\* save_cookies.toPyCookieJar: PyCookieJar after set_cookie(toPyCookie(c))
\* for the first n cookies c of QtCookieJar.allCookies()
RECURSIVE toPyCookieJar(_, _, _)
toPyCookieJar(allCookies, PyCookieJar, n) ==
    IF n = 0 THEN PyCookieJar
    ELSE set_cookie(toPyCookieJar(allCookies, PyCookieJar, n - 1),
                    toPyCookie(allCookies[n]))

\* Cookie.is_expired(now)
is_expired(c, now) == c.expires # NoTime /\ ~Gt(c.expires, now)

\* LWPCookieJar.save() and load() with their defaults: expired cookies are
\* neither written nor read (no cookie of the bridge is marked discard)
Unexpired(cookies, now) == SelectSeq(cookies, LAMBDA c : ~is_expired(c, now))

\* the jar LWPCookieJar.load() builds from the cookies of a file
RECURSIVE lwp_load(_, _)
lwp_load(cookies, n) ==
    IF n = 0 THEN <<>> ELSE set_cookie(lwp_load(cookies, n - 1), cookies[n])

\* load_cookies.toQtCookieJar always starting from an empty list
toQtCookieJar_reset(PyCookieJar, allCookies, keep_old) ==
    [i \in 1..Len(PyCookieJar) |-> toQtCookie(PyCookieJar[i])]

\* load_cookies.toQtCookieJar: the list given to QtCookieJar.setAllCookies
\* (allCookies: QtCookieJar.allCookies() before the call)
toQtCookieJar(PyCookieJar, allCookies, keep_old) ==
    (IF keep_old THEN allCookies ELSE <<>>)
    \o [i \in 1..Len(PyCookieJar) |-> toQtCookie(PyCookieJar[i])]

\* QNetworkCookieJar.setCookiesFromUrl, called by the manager for the
\* Set-Cookie headers of a reply: a cookie of the same name, domain and
\* path is replaced
setCookiesFromUrl(c) ==
    /\ Pumping
    /\ LET same == {i \in 1..Len(cookie_jar) :
                       /\ cookie_jar[i].name = c.name
                       /\ cookie_jar[i].domain = c.domain
                       /\ cookie_jar[i].path = c.path}
       IN IF same # {}
          THEN cookie_jar' = [cookie_jar EXCEPT ![Last(same)] = c]
          ELSE /\ Len(cookie_jar) < MaxCookies
               /\ cookie_jar' = Append(cookie_jar, c)
    /\ UNCHANGED <<pc, cur, attrs, page_deleted, loaded, http_resources, nres,
                   replies, nav, doc, confirm_expected, prompt_expected, scopes,
                   alert, popup_messages, upload_file, auth, auth_attempt,
                   wait_timeout, elapsed, dialog, ret, delivered,
                   dom, events, default_popup_response,
                   py_jar, cookie_file, frame_size, viewport_size,
                   nlog, wait_callback>>

\* Session.save_cookies
save_cookies(kind) ==
    /\ pc = "idle"
    /\ Alive
    /\ \A i \in 1..Len(cookie_jar) : Len(cookie_jar[i].name) <= MaxName
    /\ pc' = "done"
    /\ CASE kind = "str" ->
              /\ cookie_file' = File(Unexpired(
                     toPyCookieJar(cookie_jar, <<>>, Len(cookie_jar)), Now))
              /\ ret' = Returned("save_cookies", <<>>)
              /\ UNCHANGED py_jar
         [] kind = "CookieJar" ->
              /\ py_jar' = toPyCookieJar(cookie_jar, py_jar, Len(cookie_jar))
              /\ ret' = Returned("save_cookies", <<>>)
              /\ UNCHANGED cookie_file
         [] OTHER ->
              /\ ret' = RaisedWith("save_cookies", "ValueError",
                                   <<"unsupported cookie_storage type.">>)
              /\ UNCHANGED <<py_jar, cookie_file>>
    /\ UNCHANGED <<cur, attrs, page_deleted, loaded, http_resources, nres,
                   replies, nav, doc, confirm_expected, prompt_expected, scopes,
                   alert, popup_messages, upload_file, auth, auth_attempt,
                   wait_timeout, elapsed, dialog, delivered,
                   dom, events, default_popup_response,
                   cookie_jar, frame_size, viewport_size,
                   nlog, wait_callback>>

\* Session.load_cookies; LWPCookieJar.load() fails on a file that does not
\* exist
load_cookies(kind, keep_old) ==
    /\ pc = "idle"
    /\ Alive
    /\ pc' = "done"
    /\ CASE kind = "str" /\ ~cookie_file.exists ->
              /\ ret' = Raised("load_cookies", "FileNotFoundError")
              /\ UNCHANGED cookie_jar
         [] kind = "str" /\ cookie_file.exists ->
              LET cj == lwp_load(Unexpired(cookie_file.cookies, Now),
                                 Len(Unexpired(cookie_file.cookies, Now)))
              IN /\ Len(toQtCookieJar(cj, cookie_jar, keep_old)) <= MaxCookies
                 /\ cookie_jar' = toQtCookieJar(cj, cookie_jar, keep_old)
                 /\ ret' = Returned("load_cookies", <<>>)
         [] kind = "CookieJar" ->
              /\ Len(toQtCookieJar(py_jar, cookie_jar, keep_old)) <= MaxCookies
              /\ cookie_jar' = toQtCookieJar(py_jar, cookie_jar, keep_old)
              /\ ret' = Returned("load_cookies", <<>>)
         [] OTHER ->
              /\ ret' = RaisedWith("load_cookies", "ValueError",
                                   <<"unsupported cookie_storage type.">>)
              /\ UNCHANGED cookie_jar
    /\ UNCHANGED <<cur, attrs, page_deleted, loaded, http_resources, nres,
                   replies, nav, doc, confirm_expected, prompt_expected, scopes,
                   alert, popup_messages, upload_file, auth, auth_attempt,
                   wait_timeout, elapsed, dialog, delivered,
                   dom, events, default_popup_response,
                   py_jar, cookie_file, frame_size, viewport_size,
                   nlog, wait_callback>>

----------------------------------------------------------------------------
(* Capture *)

\* max_size = 23170 * 23170
max_size == 23170 * 23170

Area(size) == size.h * size.w

\* frame_size.height() * frame_size.width() >= max_size
TooLarge_or_equal(size) == Area(size) >= max_size

\* frame_size.height() * frame_size.width() > max_size
TooLarge(size) == Area(size) > max_size

\* The contents sizes the engine lays documents out to, and the sizes the
\* caller gives to set_viewport_size
FrameSizes == {QSize(800, 600), QSize(800, 700000), QSize(23170, 23170),
               QSize(23171, 23170)}
ViewportSizes == {QSize(1024, 768), QSize(23170, 23171), QSize(30000, 20000)}

\* region=None, and the regions and selectors the caller passes
NoRegion == <<>>
Regions == {NoRegion, <<0, 0, 100, 50>>}
CaptureSelectors == {None, "body", "#none"}

\* A QImage of the given size: a null image (0 x 0) when a side is not
\* positive or the pixels of a 32-bit format do not fit in the int that
\* counts the image's bytes
QImage(w, h) ==
    IF w <= 0 \/ h <= 0 \/ w * h > 2147483647 \div 4
    THEN [image |-> TRUE, w |-> 0, h |-> 0]
    ELSE [image |-> TRUE, w |-> w, h |-> h]

\* capture returning None
NoImage == [image |-> FALSE, w |-> 0, h |-> 0]

\* Session.region_for_selector: (left, top, right, bottom) of the geometry
\* of the first element found; body covers the contents, and the null
\* element has the null rectangle
region_for_selector(selector) ==
    IF selector = "body" THEN <<0, 0, frame_size.w - 1, frame_size.h - 1>>
    ELSE <<0, 0, 0 - 1, 0 - 1>>

\* Session.capture: the viewport size it leaves, and what it returns
CaptureViewport ==
    IF TooLarge(frame_size) THEN viewport_size ELSE frame_size

CaptureImage(region, selector) ==
    LET reg == IF region = NoRegion /\ selector # None
               THEN region_for_selector(selector) ELSE region
    IN IF TooLarge(frame_size) /\ TooLarge(viewport_size) THEN NoImage
       ELSE IF reg # NoRegion THEN QImage(reg[3] - reg[1], reg[4] - reg[2])
       ELSE QImage(CaptureViewport.w, CaptureViewport.h)

\* The engine lays the document out again: the contents get another size
layout(size) ==
    /\ Pumping
    /\ size # frame_size
    /\ frame_size' = size
    /\ UNCHANGED <<pc, cur, attrs, page_deleted, loaded, http_resources, nres,
                   replies, nav, doc, confirm_expected, prompt_expected, scopes,
                   alert, popup_messages, upload_file, auth, auth_attempt,
                   wait_timeout, elapsed, dialog, ret, delivered,
                   dom, events, default_popup_response,
                   cookie_jar, py_jar, cookie_file, viewport_size,
                   nlog, wait_callback>>

\* Session.set_viewport_size, up to its self.sleep()
set_viewport_size(size) ==
    /\ pc = "idle"
    /\ Alive
    /\ viewport_size' = size
    /\ pc' = "sleep_pump"
    /\ cur' = [NoCur EXCEPT !.op = "set_viewport_size"]
    /\ UNCHANGED <<attrs, page_deleted, loaded, http_resources, nres, replies,
                   nav, doc, confirm_expected, prompt_expected, scopes, alert,
                   popup_messages, upload_file, auth, auth_attempt,
                   wait_timeout, elapsed, dialog, ret, delivered,
                   dom, events, default_popup_response,
                   cookie_jar, py_jar, cookie_file, frame_size,
                   nlog, wait_callback>>

\* Session.capture
capture(region, selector) ==
    /\ pc = "idle"
    /\ Alive
    /\ viewport_size' = CaptureViewport
    /\ ret' = Result("capture", CaptureImage(region, selector), <<>>, <<>>)
    /\ pc' = "done"
    /\ UNCHANGED <<cur, attrs, page_deleted, loaded, http_resources, nres,
                   replies, nav, doc, confirm_expected, prompt_expected, scopes,
                   alert, popup_messages, upload_file, auth, auth_attempt,
                   wait_timeout, elapsed, dialog, delivered,
                   dom, events, default_popup_response,
                   cookie_jar, py_jar, cookie_file, frame_size,
                   nlog, wait_callback>>

\* Session.capture_to: self.capture(...).save(path); None has no save
capture_to(region, selector) ==
    /\ pc = "idle"
    /\ Alive
    /\ viewport_size' = CaptureViewport
    /\ ret' = IF CaptureImage(region, selector) = NoImage
              THEN Raised("capture_to", "AttributeError")
              ELSE Returned("capture_to", <<>>)
    /\ pc' = "done"
    /\ UNCHANGED <<cur, attrs, page_deleted, loaded, http_resources, nres,
                   replies, nav, doc, confirm_expected, prompt_expected, scopes,
                   alert, popup_messages, upload_file, auth, auth_attempt,
                   wait_timeout, elapsed, dialog, delivered,
                   dom, events, default_popup_response,
                   cookie_jar, py_jar, cookie_file, frame_size,
                   nlog, wait_callback>>

----------------------------------------------------------------------------
(* Inputs *)

TimeoutArgs == {NoTimeout} \cup Timeouts
FillArgs == {<<"#text">>, <<"#file", "#none">>}
\* the value "v" for every field of a field map
FillValues(fields) == [i \in 1..Len(fields) |-> "v"]

Next ==
    \/ resume
    \/ exit
    \/ context_exit
    \/ exit_end
    \/ \E v \in ConfirmArgs : confirm_enter(v)
    \/ confirm_exit
    \/ confirm_raise
    \/ \E v \in PromptArgs : prompt_enter(v)
    \/ prompt_exit
    \/ prompt_raise
    \/ \E el \in BOOLEAN, t \in TimeoutArgs : call("#text", el, t)
    \/ \E sel \in {"#text", "#none"}, el \in BOOLEAN, t \in TimeoutArgs : click(sel, el, t)
    \/ \E el \in BOOLEAN, t \in TimeoutArgs : evaluate(el, t)
    \/ \E sel \in {"#form", "#none"}, f \in FillArgs, el \in BOOLEAN, t \in TimeoutArgs :
          fill(sel, f, FillValues(f), el, t)
    \/ \E el \in BOOLEAN, t \in TimeoutArgs : fire("#text", el, t)
    \/ \E sel \in {"#text", "#file", "#div", "#none"}, el \in BOOLEAN, t \in TimeoutArgs :
          set_field_value(sel, "v", TRUE, el, t)
    \/ wrapper_return
    \/ \E m \in Methods, a \in Auths, p \in PopupResponses, w \in BOOLEAN, t \in TimeoutArgs :
          open(m, a, p, w, t)
    \/ open_end
    \/ \E t \in TimeoutArgs : wait_for_page_loaded(t)
    \/ \E t \in TimeoutArgs : wait_for_selector("#text", t)
    \/ \E t \in TimeoutArgs : wait_while_selector("#text", t)
    \/ \E t \in TimeoutArgs : wait_for_text("hello", t)
    \/ \E t \in TimeoutArgs : wait_for_alert(t)
    \/ wait_for_return
    \/ wait_for_raise
    \/ wait_for_sleep
    \/ wait_for_wake
    \/ sleep
    \/ sleep_end
    \/ clear_alert_message
    \/ \E r \in ReplyIds : createRequest(r)
    \/ \E r \in ReplyIds : request_ended(r)
    \/ \E r \in ReplyIds : unsupported_content(r)
    \/ \E r \in ReplyIds : reply_download_content(r)
    \/ navigate
    \/ page_load_started
    \/ page_loaded
    \/ dom_change
    \/ \E m \in Msgs : javaScriptAlert(m)
    \/ \E m \in Msgs : javaScriptConfirm(m)
    \/ \E m \in Msgs : javaScriptPrompt(m)
    \/ authenticate
    \/ \E c \in QtCookies : setCookiesFromUrl(c)
    \/ \E k \in StorageKinds : save_cookies(k)
    \/ \E k \in StorageKinds, keep_old \in BOOLEAN : load_cookies(k, keep_old)
    \/ \E size \in FrameSizes : layout(size)
    \/ \E size \in ViewportSizes : set_viewport_size(size)
    \/ \E region \in Regions, selector \in CaptureSelectors : capture(region, selector)
    \/ \E region \in Regions, selector \in CaptureSelectors : capture_to(region, selector)
    \/ chooseFile

Spec == Init /\ [][Next]_vars

----------------------------------------------------------------------------
(* The same session under callers that use one part of the API.  Each      *)
(* specification keeps the actions of that part, with the inputs named.    *)

\* delivery of the network signals while the queue is pumped
NetworkEvents ==
    \/ \E r \in ReplyIds : createRequest(r)
    \/ \E r \in ReplyIds : request_ended(r)
    \/ \E r \in ReplyIds : unsupported_content(r)
    \/ \E r \in ReplyIds : reply_download_content(r)

\* delivery of the navigation signals
LoadEvents ==
    \/ navigate
    \/ page_load_started
    \/ page_loaded

\* the poll loop of wait_for
WaitLoop ==
    \/ wait_for_return
    \/ wait_for_raise
    \/ wait_for_sleep
    \/ wait_for_wake

\* Teardown: exit and __exit__, with the signals that sleep() delivers
NextExit ==
    \/ resume
    \/ exit
    \/ context_exit
    \/ exit_end
    \/ sleep
    \/ sleep_end
    \/ open("get", None, NoExpect, FALSE, NoTimeout)
    \/ open_end
    \/ NetworkEvents
    \/ page_load_started
    \/ page_loaded

SpecExit == InitDefault /\ [][NextExit]_vars

\* Dialogs: scoped expectations, open's default popup response, and page
\* script raising confirm and prompt dialogs inside evaluate
NextDialog ==
    \/ resume
    \/ \E v \in ConfirmArgs : confirm_enter(v)
    \/ confirm_exit
    \/ confirm_raise
    \/ \E v \in PromptArgs : prompt_enter(v)
    \/ prompt_exit
    \/ prompt_raise
    \/ evaluate(FALSE, NoTimeout)
    \/ wrapper_return
    \/ \E p \in PopupResponses : open("get", None, p, FALSE, NoTimeout)
    \/ open_end
    \/ javaScriptConfirm("m1")
    \/ javaScriptPrompt("m1")

SpecDialog == InitDefault /\ [][NextDialog]_vars

\* Draining: every operation that returns the released buffer, the signals
\* that end the waits, and replies that finish
NextRes ==
    \/ resume
    \/ \E el \in BOOLEAN : evaluate(el, NoTimeout)
    \/ wrapper_return
    \/ open("get", None, NoExpect, TRUE, 0)
    \/ open_end
    \/ wait_for_page_loaded(NoTimeout)
    \/ wait_for_selector("#text", NoTimeout)
    \/ wait_while_selector("#text", NoTimeout)
    \/ wait_for_text("hello", NoTimeout)
    \/ wait_for_alert(NoTimeout)
    \/ WaitLoop
    \/ \E r \in ReplyIds : createRequest(r)
    \/ \E r \in ReplyIds : request_ended(r)
    \/ page_load_started
    \/ page_loaded
    \/ dom_change
    \/ javaScriptAlert("m1")

SpecRes == InitDefault /\ [][NextRes]_vars

\* Collecting: both ingestion paths of the collector, under the drains of
\* evaluate and of a wait
NextNet ==
    \/ resume
    \/ evaluate(FALSE, NoTimeout)
    \/ wrapper_return
    \/ wait_for_selector("#text", NoTimeout)
    \/ WaitLoop
    \/ sleep
    \/ sleep_end
    \/ NetworkEvents
    \/ dom_change

SpecNet == InitDefault /\ [][NextNet]_vars

\* The wrapped operations without expect_loading, on a buffer that the
\* signals delivered in sleep() fill
NextOps ==
    \/ resume
    \/ call("#text", FALSE, NoTimeout)
    \/ \E sel \in {"#text", "#none"} : click(sel, FALSE, NoTimeout)
    \/ evaluate(FALSE, NoTimeout)
    \/ \E sel \in {"#form", "#none"}, f \in FillArgs : fill(sel, f, FillValues(f), FALSE, NoTimeout)
    \/ fire("#text", FALSE, NoTimeout)
    \/ \E sel \in {"#text", "#file", "#div", "#none"} :
          set_field_value(sel, "v", TRUE, FALSE, NoTimeout)
    \/ wrapper_return
    \/ sleep
    \/ sleep_end
    \/ NetworkEvents
    \/ dom_change

SpecOps == InitDefault /\ [][NextOps]_vars

\* Loading: open and the wrapped operations with and without expect_loading,
\* every timeout, and the navigation signals
NextLoad ==
    \/ resume
    \/ \E el \in BOOLEAN, t \in TimeoutArgs : call("#text", el, t)
    \/ \E sel \in {"#text", "#none"}, el \in BOOLEAN, t \in TimeoutArgs : click(sel, el, t)
    \/ \E el \in BOOLEAN, t \in TimeoutArgs : evaluate(el, t)
    \/ \E sel \in {"#form", "#none"}, f \in FillArgs, el \in BOOLEAN, t \in TimeoutArgs :
          fill(sel, f, FillValues(f), el, t)
    \/ \E el \in BOOLEAN, t \in TimeoutArgs : fire("#text", el, t)
    \/ \E sel \in {"#text", "#file", "#div", "#none"}, el \in BOOLEAN, t \in TimeoutArgs :
          set_field_value(sel, "v", TRUE, el, t)
    \/ wrapper_return
    \/ \E m \in Methods, a \in Auths, w \in BOOLEAN, t \in TimeoutArgs :
          open(m, a, NoExpect, w, t)
    \/ open_end
    \/ \E t \in TimeoutArgs : wait_for_page_loaded(t)
    \/ WaitLoop
    \/ sleep
    \/ sleep_end
    \/ LoadEvents
    \/ dom_change

SpecLoad == InitTimeout /\ [][NextLoad]_vars

\* Waiting: the five waits with every timeout, and the signals and page
\* script that make their conditions true or false
NextWait ==
    \/ resume
    \/ \E t \in TimeoutArgs : wait_for_page_loaded(t)
    \/ \E t \in TimeoutArgs : wait_for_selector("#text", t)
    \/ \E t \in TimeoutArgs : wait_while_selector("#text", t)
    \/ \E t \in TimeoutArgs : wait_for_text("hello", t)
    \/ \E t \in TimeoutArgs : wait_for_alert(t)
    \/ WaitLoop
    \/ clear_alert_message
    \/ LoadEvents
    \/ dom_change
    \/ javaScriptAlert("m1")

SpecWait == InitTimeout /\ [][NextWait]_vars

\* a session constructed with a wait_timeout, with or without a wait_callback
InitCallback == Init /\ py_jar = <<>>

\* The same waits on a session that may have a wait_callback
SpecCallback == InitCallback /\ [][NextWait]_vars

\* The caller's thread is never suspended for ever: the poll loop of
\* wait_for keeps taking steps, and each sleep() ends later than it began.
SpecWaitFair == InitTimeout /\ [][NextWait]_vars /\ WF_vars(WaitLoop)

\* Pages: open with and without wait and wait_for_page_loaded, with the
\* exchanges and the navigation signals of the loads they wait for
NextPage ==
    \/ resume
    \/ \E w \in BOOLEAN, t \in Timeouts : open("get", None, NoExpect, w, t)
    \/ open_end
    \/ \E t \in TimeoutArgs : wait_for_page_loaded(t)
    \/ WaitLoop
    \/ \E r \in ReplyIds : createRequest(r)
    \/ \E r \in ReplyIds : request_ended(r)
    \/ page_load_started
    \/ page_loaded

SpecPage == InitDefault /\ [][NextPage]_vars

\* Authentication: open with and without credentials, and the exchanges
\* for which the engine asks for credentials while the queue is pumped
NextAuth ==
    \/ resume
    \/ \E a \in Auths : open("get", a, NoExpect, FALSE, NoTimeout)
    \/ open_end
    \/ sleep
    \/ sleep_end
    \/ \E r \in ReplyIds : createRequest(r)
    \/ \E r \in ReplyIds : request_ended(r)
    \/ page_load_started
    \/ page_loaded
    \/ authenticate

SpecAuth == InitDefault /\ [][NextAuth]_vars

\* The transcript: the three dialogs with both messages, under every
\* operation that reads or resets dialog state (scopes, open's default
\* response, wait_for_alert, clear_alert_message) and the teardown
NextPopup ==
    \/ resume
    \/ confirm_enter(Val("True"))
    \/ confirm_exit
    \/ prompt_enter(Fn("txt"))
    \/ prompt_exit
    \/ evaluate(FALSE, NoTimeout)
    \/ wrapper_return
    \/ open("get", None, Val("True"), FALSE, NoTimeout)
    \/ open_end
    \/ wait_for_alert(NoTimeout)
    \/ WaitLoop
    \/ clear_alert_message
    \/ exit
    \/ exit_end
    \/ \E m \in Msgs : javaScriptAlert(m)
    \/ \E m \in Msgs : javaScriptConfirm(m)
    \/ \E m \in Msgs : javaScriptPrompt(m)

SpecPopup == InitDefault /\ [][NextPopup]_vars

\* Alerts: wait_for_alert with every timeout, and page script that raises
\* alerts with either message while sleep(), a wait or evaluate runs it
NextAlert ==
    \/ resume
    \/ \E t \in TimeoutArgs : wait_for_alert(t)
    \/ WaitLoop
    \/ sleep
    \/ sleep_end
    \/ evaluate(FALSE, NoTimeout)
    \/ wrapper_return
    \/ \E m \in Msgs : javaScriptAlert(m)

SpecAlert == InitTimeout /\ [][NextAlert]_vars

\* Answers: scopes whose expectation is a fixed value (the empty string for
\* prompt) or a callable that reads the session, and the dialogs that page
\* script raises inside evaluate
NextAnswer ==
    \/ resume
    \/ \E v \in {Val("True"), Fn("count")} : confirm_enter(v)
    \/ confirm_exit
    \/ \E v \in {Val(""), Fn("count")} : prompt_enter(v)
    \/ prompt_exit
    \/ evaluate(FALSE, NoTimeout)
    \/ wrapper_return
    \/ javaScriptConfirm("m1")
    \/ javaScriptPrompt("m1")

SpecAnswer == InitDefault /\ [][NextAnswer]_vars

\* the values a caller passes for the control a selector matches
FieldArgs(sel) ==
    CASE sel = "#color" -> {"green", "blue"}
      [] sel = ".box" -> {"b", "c"}
      [] sel = "#a" -> {PyTrue, PyFalse}
      [] sel = ".radio" -> {"x"}
      [] sel = "#file" -> {"path"}
      [] OTHER -> {"v"}

\* Field Setter: set_field_value on every kind of control, with and
\* without blur, on the form document and on a document without the form
NextField ==
    \/ resume
    \/ sleep
    \/ sleep_end
    \/ dom_change
    \/ \E sel \in Selectors \ {"#form"}, blur \in BOOLEAN :
          \E value \in FieldArgs(sel) :
              set_field_value(sel, value, blur, FALSE, NoTimeout)
    \/ wrapper_return

SpecField == InitDefault /\ [][NextField]_vars

\* the field maps a caller passes to fill, as the selectors of the fields
\* and their values, in the order of the mapping: fields that all take a
\* value, a field that is not in the form, a field that is not a control
FillMaps ==
    {[fields |-> <<"#text", "#color">>, values |-> <<"v", "green">>],
     [fields |-> <<"#text", "#none", "#color">>, values |-> <<"v", "v", "green">>],
     [fields |-> <<"#a", "#div", "#text">>, values |-> <<PyTrue, "v", "v">>],
     [fields |-> <<".box", "#area">>, values |-> <<"b", "v">>]}

\* Filling: fill with each field map, on a form that exists, on a selector
\* that matches nothing, and on a document without the form
NextFill ==
    \/ resume
    \/ sleep
    \/ sleep_end
    \/ dom_change
    \/ \E sel \in {"#form", "#none"}, m \in FillMaps :
          fill(sel, m.fields, m.values, FALSE, NoTimeout)
    \/ wrapper_return

SpecFill == InitDefault /\ [][NextFill]_vars

\* Cookies: the engine's jar filled by the network, exported to and imported
\* from the caller's CookieJar and cookie file
NextCookies ==
    \/ resume
    \/ sleep
    \/ sleep_end
    \/ \E c \in QtCookies : setCookiesFromUrl(c)
    \/ \E k \in StorageKinds : save_cookies(k)
    \/ \E k \in StorageKinds, keep_old \in BOOLEAN : load_cookies(k, keep_old)

\* a caller with or without cookies of its own
InitCookies == Init /\ wait_timeout = 0 /\ wait_callback = None

SpecCookies == InitCookies /\ [][NextCookies]_vars

\* Capture: documents of several sizes, viewports the caller sets, and
\* captures of the page, of a region and of an element
NextCapture ==
    \/ resume
    \/ sleep
    \/ sleep_end
    \/ \E size \in FrameSizes : layout(size)
    \/ \E size \in ViewportSizes : set_viewport_size(size)
    \/ \E region \in Regions, selector \in CaptureSelectors : capture(region, selector)
    \/ \E region \in Regions, selector \in CaptureSelectors : capture_to(region, selector)

SpecCapture == InitDefault /\ [][NextCapture]_vars

\* File inputs: set_field_value and fill on a file input and on other
\* fields, with and without a page load to wait for
NextUpload ==
    \/ resume
    \/ sleep
    \/ sleep_end
    \/ \E sel \in {"#file", "#text", "#none"}, el \in BOOLEAN :
          set_field_value(sel, "/tmp/a.txt", TRUE, el, NoTimeout)
    \/ \E f \in FillArgs : fill("#form", f, FillValues(f), FALSE, NoTimeout)
    \/ wrapper_return
    \/ chooseFile
    \/ WaitLoop
    \/ LoadEvents
    \/ dom_change

SpecUpload == InitDefault /\ [][NextUpload]_vars

\* Failures: calls that fail in each of the ways the operations can fail
NextErrors ==
    \/ resume
    \/ \E sel \in {"#text", "#div", "#none"} :
          set_field_value(sel, "v", TRUE, FALSE, NoTimeout)
    \/ \E sel \in {"#text", "#none"} : click(sel, FALSE, NoTimeout)
    \/ \E sel \in {"#form", "#none"} :
          fill(sel, <<"#text">>, <<"v">>, FALSE, NoTimeout)
    \/ wrapper_return
    \/ dom_change
    \/ \E m \in Methods : open(m, None, NoExpect, FALSE, NoTimeout)
    \/ open_end
    \/ \E k \in StorageKinds : load_cookies(k, FALSE)
    \/ \E k \in StorageKinds : save_cookies(k)
    \/ wait_for_selector("#text", NoTimeout)
    \/ WaitLoop

SpecErrors == InitDefault /\ [][NextErrors]_vars

\* evaluate and click, with and without expect_loading, while replies
\* finish and pages load
NextExpect ==
    \/ resume
    \/ sleep
    \/ sleep_end
    \/ \E el \in BOOLEAN : evaluate(el, NoTimeout)
    \/ \E sel \in {"#text", "#none"}, el \in BOOLEAN : click(sel, el, NoTimeout)
    \/ wrapper_return
    \/ WaitLoop
    \/ \E r \in ReplyIds : createRequest(r)
    \/ \E r \in ReplyIds : request_ended(r)
    \/ LoadEvents

SpecExpect == InitDefault /\ [][NextExpect]_vars

----------------------------------------------------------------------------
(* Teardown properties *)

\* C1: Session.exit is idempotent: an exit (or a context-manager __exit__)
\* on a session that is already torn down completes without an error and
\* leaves the session torn down.
C1_ExitIdempotent ==
    (pc = "done" /\ ret.op \in {"exit", "__exit__"})
        => (ret.status = "ok" /\ attrs = {})

----------------------------------------------------------------------------
(* Dialog properties *)

\* the dialog callback of the given kind has just run
Fired(kind) ==
    /\ dialog'.kind = kind
    /\ dialog' # dialog \/ popup_messages' # popup_messages

\* the with-block of the given kind has just been left, normally or not
Left(kind, status) ==
    /\ pc = "idle"
    /\ pc' = "done"
    /\ ret'.op = kind
    /\ ret'.status = status

HasScope(kind) == \E i \in 1..Len(scopes) : scopes[i].kind = kind

\* the argument of the innermost with-block of the given kind
Innermost(kind) ==
    LET idx == {i \in 1..Len(scopes) : scopes[i].kind = kind}
    IN scopes[CHOOSE i \in idx : \A j \in idx : j <= i].v

\* C2: when the code inside a confirm(...) or prompt(...) scope raises, the
\* expectation of that scope is None once the scope has been left.
C2_ClearedOnError ==
    /\ (pc = "done" /\ ret.op = "confirm_exit" /\ ret.status = "error")
          => confirm_expected = NoExpect
    /\ (pc = "done" /\ ret.op = "prompt_exit" /\ ret.status = "error")
          => prompt_expected = NoExpect

\* C3: a confirm/prompt scope that ends normally leaves its expectation
\* None; an expectation that is None stays None until a new one is set (by
\* entering a scope or by open's default_popup_response); and a confirm or
\* prompt dialog raised while it is None fails with the error, whatever an
\* earlier scope had set.
C3_UnsetAfterScope ==
    [][ /\ Left("confirm_exit", "ok") => confirm_expected' = NoExpect
        /\ Left("prompt_exit", "ok") => prompt_expected' = NoExpect
        /\ (confirm_expected = NoExpect /\ confirm_expected' # NoExpect)
              => \/ Left("confirm_enter", "ok")
                 \/ (pc = "open_load" /\ cur.popup # NoExpect)
        /\ (prompt_expected = NoExpect /\ prompt_expected' # NoExpect)
              => \/ Left("prompt_enter", "ok")
                 \/ (pc = "open_load" /\ cur.popup # NoExpect)
        /\ (Fired("confirm") /\ confirm_expected = NoExpect)
              => dialog'.status = "error"
        /\ (Fired("prompt") /\ prompt_expected = NoExpect)
              => dialog'.status = "error"
      ]_vars

\* C3 witness: page script run by evaluate outside every scope has raised a
\* confirm that failed, after a confirm had been answered earlier.
C3_Witness ==
    /\ pc = "act"
    /\ cur.op = "evaluate"
    /\ scopes = <<>>
    /\ confirm_expected = NoExpect
    /\ prompt_expected = NoExpect
    /\ dialog = [kind |-> "confirm", status |-> "error", answer |-> "", calls |-> 0]
    /\ popup_messages # <<>>

\* C4: a confirm (prompt) dialog is answered exactly when a confirm (prompt)
\* expectation is registered when it fires, with the value of that
\* expectation; otherwise it fails, gives no answer and records nothing.
C4_AnsweredIffExpected ==
    [][ /\ Fired("confirm") =>
              IF confirm_expected = NoExpect
              THEN dialog'.status = "error" /\ dialog'.answer = ""
                   /\ popup_messages' = popup_messages
              ELSE dialog'.status = "answered"
                   /\ dialog'.answer = confirm_expected.v
        /\ Fired("prompt") =>
              IF prompt_expected = NoExpect
              THEN dialog'.status = "error" /\ dialog'.answer = ""
                   /\ popup_messages' = popup_messages
              ELSE dialog'.status = "answered"
                   /\ dialog'.answer = prompt_expected.v
      ]_vars

\* C4 witness: a prompt has failed while a confirm expectation was registered
C4_Witness ==
    /\ dialog = [kind |-> "prompt", status |-> "error", answer |-> "", calls |-> 0]
    /\ prompt_expected = NoExpect
    /\ confirm_expected # NoExpect
    /\ pc = "act"

\* C5: stack discipline: when a nested confirm (prompt) scope has ended,
\* the expectation in force is the one of the enclosing confirm (prompt)
\* scope.
C5_StackDiscipline ==
    /\ (pc = "done" /\ ret.op = "confirm_exit" /\ ret.status = "ok"
            /\ HasScope("confirm"))
          => confirm_expected = Innermost("confirm")
    /\ (pc = "done" /\ ret.op = "prompt_exit" /\ ret.status = "ok"
            /\ HasScope("prompt"))
          => prompt_expected = Innermost("prompt")

----------------------------------------------------------------------------
(* Resource properties *)

\* the operations that return the released buffer to their caller
DrainCalls == {"evaluate", "wait_for_page_loaded", "wait_for_selector",
               "wait_while_selector", "wait_for_text", "wait_for_alert"}

\* an operation has just returned normally to the caller
Completes(ops) ==
    /\ pc # "done"
    /\ pc' = "done"
    /\ ret'.status = "ok"
    /\ ret'.op \in ops

Increasing(s) == \A i, j \in 1..Len(s) : i < j => s[i].n < s[j].n

\* C6: the buffer is drained exactly: a draining call returns what the
\* buffer holds and leaves it empty, so a drain that follows with nothing
\* collected in between returns the empty list; no resource is returned that
\* an earlier call has returned, and nothing that has been returned is
\* still buffered.
C6_DrainedExactly ==
    [][ /\ Completes(DrainCalls) =>
              /\ ret'.res = http_resources
              /\ http_resources' = <<>>
              /\ Serials(ret'.res) \cap delivered = {}
              /\ delivered' = delivered \cup Serials(ret'.res)
              /\ Cardinality(Serials(ret'.res)) = Len(ret'.res)
        /\ Serials(http_resources') \cap delivered' = {}
      ]_vars

\* C6 witness: a drain has returned the empty list when every resource
\* collected so far had been returned by earlier drains
C6_Witness ==
    /\ pc = "done"
    /\ ret.op \in DrainCalls
    /\ ret.status = "ok"
    /\ ret.res = <<>>
    /\ http_resources = <<>>
    /\ nres > 0
    /\ Cardinality(delivered) = nres

C8_OneRecordPerReply ==
    \A i, j \in 1..Len(http_resources) :
        i < j => http_resources[i].reply # http_resources[j].reply

----------------------------------------------------------------------------
(* Expect-loading properties *)

WrappedOps == {"call", "click", "evaluate", "fill", "fire", "set_field_value"}

\* C9: when an operation that waits for loading (open with wait, a wrapped
\* operation with expect_loading) invokes its engine action, loaded has
\* already been set to false.
C9_LoadedFalseBeforeAction ==
    [][ (pc = "idle" /\ pc' \in {"act", "open_load"} /\ cur'.el)
            => loaded' = FALSE ]_vars

\* C10 as stated: without expect_loading a wrapped operation returns with
\* the resource buffer as it was before the call.
C10_BufferKept ==
    [][ (pc \in {"idle", "act"} /\ pc' = "done" /\ ret'.op \in WrappedOps
             /\ ~cur.el)
            => http_resources' = http_resources ]_vars

\* fill reaches a field that is an input of type file
FileFieldReached(fields) ==
    \E i \in 1..Len(fields) :
        /\ TypeAttr(fields[i]) = "file"
        /\ \A j \in 1..(i - 1) : SetFieldErr(fields[j], "form") = ""

\* the operation in progress is one whose function releases the buffer
Releases(c) ==
    \/ c.op \in {"evaluate", "click"}
    \/ c.op = "set_field_value" /\ TypeAttr(c.sel) = "file"
    \/ c.op = "fill" /\ FileFieldReached(c.fields)

\* C10 amended: without expect_loading a wrapped operation ends (returns or
\* raises) without waiting.  call and fire, and set_field_value and fill
\* when they set no input of type file, and every operation that raises
\* before its first engine call, leave the buffer as it was.  evaluate,
\* click on an element that exists, and set_field_value and fill on an
\* input of type file release the buffer, and return what was released when
\* they return normally.
C10_DrainsOnlyByEvaluate ==
    [][ /\ (pc = "idle" /\ pc' = "done" /\ ret'.op \in WrappedOps)
              => http_resources' = http_resources
        /\ (pc = "act" /\ ~cur.el /\ pc' # pc) =>
              /\ pc' = "done"
              /\ IF Releases(cur)
                 THEN /\ http_resources' = <<>>
                      /\ ret'.status = "ok" => ret'.res = http_resources
                 ELSE /\ http_resources' = http_resources
                      /\ ret'.res = <<>>
      ]_vars

\* C10 witness: evaluate without expect_loading has returned the resources
\* that were in the buffer, which is now empty
C10_Witness ==
    /\ pc = "done"
    /\ ret.op = "evaluate"
    /\ ret.status = "ok"
    /\ ret.res # <<>>
    /\ http_resources = <<>>

----------------------------------------------------------------------------
(* evaluate *)

\* C11 as stated: every evaluate call that returns, with or without
\* expect_loading, returns the value of the script and leaves the buffer
\* empty.
C11_EvaluateValueAndBuffer ==
    [][ (pc # "done" /\ pc' = "done" /\ ret'.op = "evaluate"
             /\ ret'.status = "ok")
            => (ret'.val = "result" /\ http_resources' = <<>>) ]_vars

\* C11 amended: evaluate releases the buffer when its script has run.
\* Without expect_loading it returns the value of the script with the
\* released resources.  With expect_loading the value and the released
\* resources are dropped and the call goes on to wait for the page load: it
\* returns what wait_for_page_loaded returns (the page and the resources
\* collected during the wait, leaving the buffer empty) or raises
\* TimeoutError.
C11_EvaluateReturns ==
    [][ /\ (pc = "act" /\ cur.op = "evaluate" /\ pc' # pc) =>
              /\ http_resources' = <<>>
              /\ IF cur.el
                 THEN pc' = "wait_check" /\ ret' = ret /\ delivered' = delivered
                 ELSE /\ pc' = "done"
                      /\ ret'.status = "ok"
                      /\ ret'.val = "result"
                      /\ ret'.res = http_resources
        /\ (pc = "wait_check" /\ cur.op = "evaluate" /\ pc' = "done") =>
              IF ret'.status = "ok"
              THEN /\ ret'.val = ""
                   /\ ret'.page = Page(http_resources, FrameUrl(doc))
                   /\ ret'.res = http_resources
                   /\ http_resources' = <<>>
              ELSE ret'.err = "TimeoutError"
      ]_vars

\* C11 witness: evaluate with expect_loading has returned the resources
\* collected during its wait, and no script value, while a resource that
\* was buffered before it has been returned by no call
C11_Witness ==
    /\ pc = "done"
    /\ ret.op = "evaluate"
    /\ ret.status = "ok"
    /\ ret.val = ""
    /\ ret.res # <<>>
    /\ \E n \in 1..nres : n \notin delivered /\ \A i \in 1..Len(ret.res) : n < ret.res[i].n

----------------------------------------------------------------------------
(* open and the wait for the page load *)

\* C12: open called with wait=True and no timeout goes on to wait for the
\* page load with the session's default wait_timeout: the unset timeout is
\* no cause of failure.
C12_DefaultTimeoutUsed ==
    [][ (pc = "open_load" /\ cur.el /\ cur.timeout = NoTimeout /\ pc' # pc)
            => (pc' = "wait_check" /\ cur'.timeout = wait_timeout) ]_vars

----------------------------------------------------------------------------
(* Wait primitive properties *)

\* a wait_for that is in progress
Waiting == pc \in {"wait_check", "wait_pump"}

\* C13: wait_for raises TimeoutError only at a check that found the
\* condition false, only when more than `timeout` has elapsed since the
\* wait began, and with the message of the wait that called it.
C13_TimeoutOnlyAfterDeadline ==
    [][ (ret'.err = "TimeoutError" /\ ret' # ret) =>
            /\ pc = "wait_check"
            /\ ~Condition(cur.wait, cur.sel)
            /\ elapsed > cur.timeout
            /\ ret'.msg = TimeoutMessage(cur.wait, cur.sel)
      ]_vars

\* C13 witness: wait_for_selector has timed out after it polled
C13_Witness ==
    /\ pc = "done"
    /\ ret.op = "wait_for_selector"
    /\ ret.err = "TimeoutError"
    /\ ret.msg = <<"Can't find element matching", "#text">>
    /\ elapsed > MaxTimeout

----------------------------------------------------------------------------
(* Navigation properties *)

\* a navigation started by open or announced by the load-started signal
\* whose load-finished signal has not been delivered
InFlight == nav \in {"opening", "loading"}

\* C16: loaded is false in every state in which a navigation is in flight:
\* from open's load request, or from the load-started signal, to the
\* load-finished signal.
C16_LoadedFalseInFlight == InFlight => loaded = FALSE

\* page is None, or a member of resources whose URL is url or url without
\* its fragment; and it is None only when resources has no such member
IsPageOf(page, resources, url) ==
    LET matches(r) == r.url = url \/ r.url = WithoutHash(url)
    IN /\ Len(page) <= 1
       /\ \A i \in 1..Len(page) :
             /\ \E j \in 1..Len(resources) : resources[j] = page[i]
             /\ matches(page[i])
       /\ page = <<>> <=> ~\E j \in 1..Len(resources) : matches(resources[j])

\* open with wait=True has just returned normally
OpenReturns ==
    /\ pc = "wait_check"
    /\ cur.op = "open"
    /\ pc' = "done"
    /\ ret'.status = "ok"

C18_PageAmongResources ==
    [][ (pc = "wait_check" /\ cur.wait = "wait_for_page_loaded" /\ pc' = "done"
             /\ ret'.status = "ok") =>
            /\ ret'.res = http_resources
            /\ http_resources' = <<>>
            /\ IsPageOf(ret'.page, http_resources, FrameUrl(doc))
      ]_vars

\* C18 witness: wait_for_page_loaded has returned two resources and as page
\* the one whose URL is the frame URL without its fragment
C18_Witness ==
    /\ pc = "done"
    /\ ret.op = "wait_for_page_loaded"
    /\ ret.status = "ok"
    /\ Len(ret.res) >= 2
    /\ ret.page # <<>>
    /\ ret.page[1].url # FrameUrl(doc)
    /\ ret.page[1].url = WithoutHash(FrameUrl(doc))

\* C19: an operation that waits for loading (open with wait, a wrapped
\* operation with expect_loading) starts its action on an empty buffer:
\* what earlier activity left in the buffer has been drained before, so
\* that the operation returns only what was collected after it started.
C19_DrainedBeforeAction ==
    [][ (pc = "idle" /\ pc' \in {"act", "open_load"} /\ cur'.el)
            => http_resources' = <<>> ]_vars

----------------------------------------------------------------------------
(* Authentication properties *)

\* C20: after an open, a challenge that arrives while credentials are
\* pending and no attempt has been made since the open is answered with
\* them and advances the attempt counter from 0 to 1; every other challenge
\* (a later one, or one with no credentials given) is left unanswered and
\* changes nothing.
C20_OneChallengeAnswered ==
    [][ (Fired("auth") /\ auth # Unset) =>
            IF auth = "creds" /\ auth_attempt = 0
            THEN /\ dialog'.status = "answered"
                 /\ dialog'.answer = auth
                 /\ auth_attempt' = 1
            ELSE /\ dialog'.status = "ignored"
                 /\ auth_attempt' = auth_attempt
      ]_vars

----------------------------------------------------------------------------
(* Transcript properties *)

IsPrefix(s, t) == Len(s) <= Len(t) /\ SubSeq(t, 1, Len(s)) = s

\* C21: the popup transcript is append-only: every step of every operation
\* and callback leaves the transcript an extension of what it was, so that
\* in every state it extends what it was in any earlier state; entries are
\* never removed or reordered.
C21_TranscriptAppendOnly ==
    [][IsPrefix(popup_messages, popup_messages')]_vars

\* C21 witness: clear_alert_message has returned and has emptied the alert
\* slot, with both dialogs still in the transcript in the order they fired
C21_Witness ==
    /\ pc = "done"
    /\ ret.op = "clear_alert_message"
    /\ alert = None
    /\ popup_messages = <<"m2", "m1">>

\* C22: every alert, confirm or prompt that the engine raises appends one
\* entry to the popup transcript, whether or not an expectation is
\* registered for it.
C22_EveryDialogRecorded ==
    [][ \A k \in {"alert", "confirm", "prompt"} :
            Fired(k) => Len(popup_messages') = Len(popup_messages) + 1 ]_vars

\* C23: an alert never fails, whatever expectations are registered: it
\* stores its message in the alert slot (overwriting what the slot held) and
\* records it.  wait_for_alert ends by returning the message in the slot
\* and emptying the slot, or, when the slot is empty at its last check, by
\* timing out: a message that a wait has returned is not returned again.
C23_AlertSlot ==
    [][ /\ Fired("alert") =>
              /\ dialog'.status = "answered"
              /\ popup_messages' # popup_messages
              /\ alert' = popup_messages'[Len(popup_messages')]
        /\ (pc = "wait_check" /\ cur.wait = "wait_for_alert" /\ pc' = "done") =>
              IF alert # None
              THEN ret'.status = "ok" /\ ret'.val = alert /\ alert' = None
              ELSE ret'.status = "error" /\ ret'.err = "TimeoutError"
      ]_vars

\* C23 witness: two alerts have fired, a wait_for_alert has emptied the slot
\* (nothing else does under SpecAlert), and a wait_for_alert that followed
\* with no new alert has timed out
C23_Witness ==
    /\ pc = "done"
    /\ ret.op = "wait_for_alert"
    /\ ret.err = "TimeoutError"
    /\ popup_messages = <<"m1", "m2">>
    /\ alert = None

\* the answer a dialog must get from the expectation e when it fires: the
\* value itself, or what the callable returns when called now; the callable
\* "count" then sees the transcript with this dialog's message in it
AnswerNow(e) ==
    IF e.kind = "callable"
    THEN IF e.v = "count" THEN ToString(Len(popup_messages) + 1) ELSE e.v
    ELSE e.v

\* C24: a confirm or prompt dialog that fires under a callable expectation
\* calls it once, when the dialog fires, and answers with its result;
\* entering the scope calls nothing.  Under a fixed value the dialog answers
\* with that value and calls nothing; the empty string is a prompt answer
\* like any other.
C24_AnswerAtDialogTime ==
    [][ /\ (Fired("confirm") /\ confirm_expected # NoExpect) =>
              /\ dialog'.status = "answered"
              /\ dialog'.answer = AnswerNow(confirm_expected)
              /\ dialog'.calls = IF confirm_expected.kind = "callable" THEN 1 ELSE 0
        /\ (Fired("prompt") /\ prompt_expected # NoExpect) =>
              /\ dialog'.status = "answered"
              /\ dialog'.answer = AnswerNow(prompt_expected)
              /\ dialog'.calls = IF prompt_expected.kind = "callable" THEN 1 ELSE 0
        /\ (Left("confirm_enter", "ok") \/ Left("prompt_enter", "ok")) =>
              dialog' = dialog
      ]_vars

\* C24 witness: inside one confirm scope with a callable expectation, the
\* second confirm of the session has been answered with what the callable
\* returned at that dialog, not at the first one or at scope entry
C24_Witness ==
    /\ pc = "act"
    /\ confirm_expected = Fn("count")
    /\ dialog = [kind |-> "confirm", status |-> "answered", answer |-> "2",
                 calls |-> 1]

\* C25: once open has been given a default_popup_response v, every confirm
\* and prompt dialog raised outside the confirm/prompt scopes is answered
\* with v, also after scopes have been entered and left.
C25_DefaultResponseKept ==
    [][ (default_popup_response # NoExpect /\ scopes = <<>>) =>
            \A k \in {"confirm", "prompt"} :
                Fired(k) => /\ dialog'.status = "answered"
                            /\ dialog'.answer = default_popup_response.v
      ]_vars

----------------------------------------------------------------------------
(* Field Setter properties *)

\* set_field_value has just been called with its element found and has got
\* past the dispatch on tag and type
Sets(types) ==
    /\ pc = "idle"
    /\ pc' = "act"
    /\ cur'.op = "set_field_value"
    /\ TagName(cur'.sel) = "input"
    /\ TypeAttr(cur'.sel) \in types

\* the input types of the dispatch table
TextLike == {"text", "email", "url", "number", "search", "tel", "password",
             "date", "datetime", "datetime-local", "time", "week", "month",
             "color", "range", "hidden", ""}
TableTypes == TextLike \cup {"checkbox", "radio", "file"}

\* C26: set_field_value on an element outside the dispatch table (a tag
\* other than select, textarea, input; an input of a type the table does
\* not list) fails with 'unsupported field tag' before any engine call, and
\* the failure assigns nothing and fires nothing.
C26_UnsupportedFails ==
    [][ /\ (pc = "idle" /\ pc' = "act" /\ cur'.op = "set_field_value") =>
              /\ TagName(cur'.sel) \in {"select", "textarea", "input"}
              /\ TagName(cur'.sel) = "input" => TypeAttr(cur'.sel) \in TableTypes
        /\ (pc = "idle" /\ pc' = "done" /\ ret'.op = "set_field_value"
               /\ ret'.err = "unsupported field tag") =>
              dom' = dom /\ events' = <<>>
      ]_vars

\* C27: on an input of a text-like type set_field_value sets the value
\* attribute of the element to the given value.
C27_TextLikeValueSet ==
    [][ Sets(TextLike) => dom'[Elems(cur'.sel)[1]] = cur'.value ]_vars

IsFieldEvent(x) == x.name \in {"input", "change", "blur"}

\* C29: a set_field_value that gets to its assignment fires on the element
\* one input event, then one change event, then a blur unless blur is
\* suppressed, and no other of these events; a set_field_value that fails
\* fires no event and assigns nothing.
C29_EventsAfterAssignment ==
    [][ (pc = "idle" /\ pc' # "idle"
            /\ (cur'.op = "set_field_value" \/ ret'.op = "set_field_value")) =>
            IF pc' = "act"
            THEN LET element == Elems(cur'.sel)[1]
                 IN SelectSeq(events', IsFieldEvent) =
                        <<Event(element, "input"), Event(element, "change")>>
                        \o (IF cur'.blur THEN <<Event(element, "blur")>> ELSE <<>>)
            ELSE ret'.status = "error" /\ events' = <<>> /\ dom' = dom
      ]_vars

\* C29 witness: set_field_value('#color', 'green', blur=False) has selected
\* the option green and fired input and change, once each, on the select
C29_Witness ==
    /\ pc = "act"
    /\ cur.op = "set_field_value"
    /\ cur.sel = "#color"
    /\ cur.value = "green"
    /\ dom["color"] = "green"
    /\ events = <<Event("color", "input"), Event("color", "change")>>

----------------------------------------------------------------------------
(* fill properties *)

\* the entries of a field map whose selector resolves to nothing, and those
\* that the Field Setter refuses for either reason
Missing(fields) == {i \in 1..Len(fields) : fields[i] \notin Matches(doc)}
Refused(fields) ==
    {i \in 1..Len(fields) :
        \/ fields[i] \notin Matches(doc)
        \/ TagName(fields[i]) \notin {"select", "textarea", "input"}}

First(idx) == CHOOSE i \in idx : \A j \in idx : i <= j

\* fill has passed its test of the form and set the first n entries of the
\* map m; err is the error its loop has met ("" for none)
Filled(m, n, err) ==
    /\ dom' = FillDom(dom, m.fields, m.values, n)
    /\ events' = FillEvents(m.fields, n)
    /\ IF n = 0 /\ err # ""
       THEN pc' = "done" /\ ret' = Raised("fill", err)
       ELSE pc' = "act" /\ cur'.err = err

\* fill ends as its loop ended: with the error it met, or reporting True
FillEnds ==
    (pc = "act" /\ cur.op = "fill" /\ pc' = "done") =>
        IF cur.err # "" THEN ret' = Raised("fill", cur.err)
        ELSE ret'.status = "ok" /\ ret'.val = PyTrue

----------------------------------------------------------------------------
(* Cookie Bridge: round trip *)

\* The caller's CookieJar holds the export of the engine's jar, one record
\* for each cookie, and nothing else
Exported ==
    /\ py_jar = toPyCookieJar(cookie_jar, <<>>, Len(cookie_jar))
    /\ Len(py_jar) = Len(cookie_jar)

\* cookie r is cookie c but for an expiry brought down to 2147483647
Survives(c, r) ==
    /\ r.name = c.name
    /\ r.value = c.value
    /\ r.secure = c.secure
    /\ r.domain = c.domain
    /\ r.path = c.path
    /\ c.expires # NoTime =>
          r.expires = IF Gt(c.expires, IntMax) THEN IntMax ELSE c.expires

\* C31: a cookie of the engine's jar that was exported with save_cookies and
\* is imported again with load_cookies comes back with the same name, value,
\* secure flag, domain and path, and with its expiry unchanged if that is at
\* most 2147483647 and equal to 2147483647 if it is above.
C31_RoundTrip ==
    [][(load_cookies("CookieJar", FALSE) /\ Exported /\ cookie_jar # <<>>) =>
          \A i \in 1..Len(cookie_jar) :
              \E j \in 1..Len(cookie_jar') : Survives(cookie_jar[i], cookie_jar'[j])]_vars

\* the cookies load_cookies reads from its argument: those of the caller's
\* CookieJar, or those LWPCookieJar.load() finds in the file
Imported(kind) ==
    IF kind = "CookieJar" THEN py_jar
    ELSE lwp_load(Unexpired(cookie_file.cookies, Now),
                  Len(Unexpired(cookie_file.cookies, Now)))

----------------------------------------------------------------------------
(* Capture: the pixel ceiling *)

----------------------------------------------------------------------------
(* Failure taxonomy *)

\* The class of the exception a failed call raised: ret.err names the
\* class for TimeoutError and the built-in exceptions, and holds the
\* message for the failures raised as Error(message)
ErrorClass(r) ==
    IF r.err \in {"TimeoutError", "ValueError", "TypeError", "AttributeError",
                  "RuntimeError", "FileNotFoundError"}
    THEN r.err ELSE "Error"

\* The raise statements of the operations: the line, the class raised, and
\* the kind of failure it reports
RaiseSite(line, class, kind) == [line |-> line, class |-> class, kind |-> kind]
RaiseSites ==
    {RaiseSite(127, "Error", "ConfigurationError"),
     RaiseSite(141, "Error", "ConfigurationError"),
     RaiseSite(600, "Error", "ElementNotFound"),
     RaiseSite(692, "Error", "ElementNotFound"),
     RaiseSite(768, "ValueError", "ConfigurationError"),
     RaiseSite(809, "Error", "ConfigurationError"),
     RaiseSite(918, "ValueError", "ConfigurationError"),
     RaiseSite(971, "Error", "ElementNotFound"),
     RaiseSite(1017, "Error", "UnsupportedOperation"),
     RaiseSite(1066, "ValueError", "ConfigurationError"),
     RaiseSite(1113, "TimeoutError", "Timeout")}

\* the kind of the failure a call ended with ("" for an exception that no
\* raise statement of the operations produces)
FailureKind(r) ==
    CASE r.err = "TimeoutError" -> "Timeout"
      [] r.err \in {"Can't find element to click", "Can't find form",
                    "can't find element"} -> "ElementNotFound"
      [] r.err = "unsupported field tag" -> "UnsupportedOperation"
      [] r.err \in {"Invalid http method", "ValueError"} -> "ConfigurationError"
      [] OTHER -> ""

\* C34: a failure of one of the four kinds (Timeout, ConfigurationError,
\* ElementNotFound, UnsupportedOperation) reaches the caller as an exception
\* of a class that no failure of another kind is raised with.
C34_DistinctTypes ==
    (pc = "done" /\ ret.status = "error" /\ FailureKind(ret) # "") =>
        \A s \in RaiseSites :
            s.kind # FailureKind(ret) => s.class # ErrorClass(ret)

----------------------------------------------------------------------------
(* Resource Collector: replies without an HTTP status *)

\* C35: when the finished signal is delivered for a reply that carries no
\* HTTP status, the resource buffer stays as it is and a record of the
\* event is written to the log.
C35_StatuslessLogged ==
    [][\A r \in ReplyIds :
          (request_ended(r) /\ ~replies[r].http) =>
              /\ http_resources' = http_resources
              /\ nlog' > nlog]_vars

----------------------------------------------------------------------------
(* Wait Primitive: the poll callback *)

\* C36: each time wait_for finds its condition false before the deadline
\* has passed, it pumps the engine's event queue and, once the pump is
\* over, invokes the registered wait_callback exactly once; the callback is
\* invoked at no other moment, so not at all when the condition is true at
\* the first evaluation, in which case the wait returns normally even with
\* timeout 0.
C36_CallbackOncePerIteration ==
    [][/\ (pc = "wait_check" /\ ~Condition(cur.wait, cur.sel)
              /\ ~(elapsed > cur.timeout) /\ pc' # pc) =>
             pc' = "wait_pump" /\ cur'.callbacks = cur.callbacks
       /\ (pc = "wait_pump" /\ pc' # pc) =>
             /\ pc' = "wait_check"
             /\ cur'.callbacks =
                   cur.callbacks + (IF wait_callback # None THEN 1 ELSE 0)
       /\ (Waiting /\ Waiting' /\ cur'.callbacks # cur.callbacks) =>
             pc = "wait_pump"
       /\ (pc = "wait_check" /\ elapsed = 0 /\ Condition(cur.wait, cur.sel)
              /\ pc' # pc) =>
             pc' = "done" /\ ret'.status = "ok" /\ cur.callbacks = 0
      ]_vars

\* C36 witness: a wait on a session with a wait_callback is at its third
\* evaluation of the condition, after two iterations and two invocations
C36_Witness ==
    /\ pc = "wait_check"
    /\ wait_callback # None
    /\ cur.callbacks = 2
    /\ ~Condition(cur.wait, cur.sel)

----------------------------------------------------------------------------
(* Field Setter: file inputs *)

\* set_field_value, or a fill that got to a file input, is at its click
StagedCall ==
    pc = "act" /\ cur.drains /\ cur.op \in {"set_field_value", "fill"}

\* C37: for a file input set_field_value stages the value as the pending
\* upload path before its click, the file-choose hook that runs during the
\* click returns the staged path, and outside a set_field_value call the
\* pending upload path is None, whether the call returned or failed.
C37_UploadStaged ==
    /\ [](StagedCall => upload_file # None)
    /\ [](~StagedCall /\ pc # "act" => upload_file = None)
    /\ [][chooseFile => dialog'.answer = upload_file]_vars

----------------------------------------------------------------------------
(* Wait Primitive: the buffer after a Timeout *)

\* a wait has just ended in TimeoutError
TimesOut ==
    /\ pc = "wait_check"
    /\ pc' = "done"
    /\ ret'.status = "error"
    /\ ret'.err = "TimeoutError"

\* every resource of the buffer is still buffered after the step, in its
\* place, or has been handed to the caller by a call that returned
KeptOrReturned ==
    \/ IsPrefix(http_resources, http_resources')
    \/ /\ pc # "done"
       /\ pc' = "done"
       /\ ret'.status = "ok"
       /\ ret'.res = http_resources

\* C38 as stated: a wait that ends in TimeoutError does not drain the
\* buffer, and every resource buffered then stays buffered, in order, until
\* the next draining call that succeeds returns it.
C38_TimeoutKeepsBuffer ==
    [][ /\ TimesOut => (http_resources' = http_resources /\ delivered' = delivered)
        /\ KeptOrReturned ]_vars

\* C38 amended: a wait that ends in TimeoutError does not drain the buffer:
\* every resource buffered then stays buffered, in order.  The buffer is
\* emptied by the next call that releases it: a wait_for_* call that
\* returns (on its own or at the end of open or of an expect_loading
\* operation) and evaluate without expect_loading return the resources
\* released, while evaluate with expect_loading (or one whose action
\* raises) releases them inside its action and returns them to no caller.
C38_TimeoutKeepsUntilReleased ==
    [][ /\ TimesOut => (http_resources' = http_resources /\ delivered' = delivered)
        /\ \/ KeptOrReturned
           \/ /\ pc = "act"
              /\ cur.drains
              /\ cur.el \/ cur.err # ""
              /\ http_resources' = <<>>
              /\ delivered' = delivered ]_vars

\* C38 witness: a wait has ended in TimeoutError with two resources in the
\* buffer, none of which has been returned to a caller
C38_Witness ==
    /\ pc = "done"
    /\ ret.status = "error"
    /\ ret.err = "TimeoutError"
    /\ ret.op \in {"wait_for_selector", "wait_while_selector", "wait_for_text",
                   "wait_for_alert", "wait_for_page_loaded"}
    /\ Len(http_resources) = 2
    /\ Serials(http_resources) \cap delivered = {}

----------------------------------------------------------------------------
(* Expect-loading: failure *)

\* a wrapped operation is called with expect_loading=True
ExpectLoadingCall ==
    \E t \in TimeoutArgs :
        \/ call("#text", TRUE, t)
        \/ \E sel \in {"#text", "#none"} : click(sel, TRUE, t)
        \/ evaluate(TRUE, t)
        \/ \E sel \in {"#form", "#none"}, f \in FillArgs :
              fill(sel, f, FillValues(f), TRUE, t)
        \/ fire("#text", TRUE, t)
        \/ \E sel \in {"#text", "#file", "#div", "#none"} :
              set_field_value(sel, "v", TRUE, TRUE, t)

\* a wrapped operation called with expect_loading=True is in progress
ExpectLoadingOp ==
    /\ pc \in {"act", "wait_check", "wait_pump"}
    /\ cur.op \in WrappedOps
    /\ cur.el

\* C39: when an operation called with expect_loading=True fails, because
\* its action raises (before or after its first engine call) or because
\* its wait ends in TimeoutError, the session is still usable and loaded is
\* false, whatever it was before the call; loaded goes from false to true
\* only when the load-finished signal is handled.
C39_LoadedStaysFalse ==
    [][ /\ (pc = "idle" /\ pc' = "done" /\ ExpectLoadingCall) =>
              (ret'.status = "error" /\ loaded' = FALSE /\ Alive')
        /\ (ExpectLoadingOp /\ pc' = "done" /\ ret'.status = "error") =>
              /\ loaded' = FALSE
              /\ Alive'
              /\ pc = "wait_check" <=> ret'.err = "TimeoutError"
        /\ (~loaded /\ loaded') => page_loaded
      ]_vars

\* C39 witness: click with expect_loading=True on a selector that matches
\* nothing has failed on a page that had finished loading: the session is
\* alive, no navigation is under way and loaded is false
C39_Witness ==
    /\ pc = "done"
    /\ ret.op = "click"
    /\ ret.status = "error"
    /\ ret.err # "TimeoutError"
    /\ Alive
    /\ nav = "idle"
    /\ doc # "blank"
    /\ loaded = FALSE

----------------------------------------------------------------------------
(* Expect-loading: the resources released inside the action *)

\* the resources constructed so far that are neither buffered nor returned
\* to a caller
Discarded ==
    {n \in 1..nres : n \notin delivered /\ n \notin Serials(http_resources)}

\* C40: evaluate or click called with expect_loading=True releases the
\* buffer inside its action, and what it releases is dropped with the
\* action's return value: it reaches no caller, then or later.  The call
\* returns the resources buffered since, none of which was in the buffer
\* when the action ran.
C40_ReleasedAndDiscarded ==
    [][ /\ (pc = "act" /\ cur.op \in {"evaluate", "click"} /\ cur.el
               /\ pc' # pc) =>
              /\ pc' = "wait_check"
              /\ http_resources' = <<>>
              /\ delivered' = delivered
              /\ ret' = ret
              /\ Discarded' = Discarded \cup Serials(http_resources)
        /\ (pc = "wait_check" /\ cur.op \in {"evaluate", "click"} /\ cur.el
               /\ pc' = "done" /\ ret'.status = "ok") =>
              /\ ret'.res = http_resources
              /\ ret'.val = ""
              /\ Serials(ret'.res) \cap Discarded = {}
        /\ Discarded \subseteq Discarded'
      ]_vars

\* C40 witness: click with expect_loading=True has returned a resource
\* collected during its wait, and the resource that was buffered before it
\* has been returned by no call and is no longer buffered
C40_Witness ==
    /\ pc = "done"
    /\ ret.op = "click"
    /\ ret.status = "ok"
    /\ Len(ret.res) = 1
    /\ http_resources = <<>>
    /\ Discarded # {}
    /\ \A n \in Discarded : n < ret.res[1].n

====
